---- MODULE Spec2Model ----
(***************************************************************************)
(* Model of the AVC analysis service (src/app.py, src/analysis/*.py).      *)
(*                                                                         *)
(* Spec     the session life cycle: the session folders under storage/,    *)
(*          the status record in metadata.json, the raw uploads, the       *)
(*          report file, the HTTP handlers and the analysis jobs they      *)
(*          start (background threads and the synchronous run of           *)
(*          /api/analyze_video).  An analyzer is one step of a job here:   *)
(*          it returns or it raises.                                       *)
(* SpecJob  one analysis run in detail: what each analyzer is given, what  *)
(*          it calls and what it returns, up to the report.                *)
(***************************************************************************)
EXTENDS Integers, Sequences, FiniteSets, TLC

\* Bounds of the model.
MaxSessions == 1
MaxJobs == 2

Sessions == 1..MaxSessions
Slots == 1..MaxJobs

\* participant_id of /upload/{session_id}/{participant_id}; "user" is the
\* fixed name of a scenario recording (user.webm).
Participants == {"A", "B"}
ScenarioUser == "user"

VARIABLES
    scenarios,  \* TRUE when a scenario folder exists under storage/scenarios
    kind,       \* kind[s]: "none" (no folder), "regular" (storage/<id>), "scenario" (storage/scenario_sessions/<id>)
    status,     \* status[s]: the "status" of the session's metadata.json
    raw,        \* raw[s]: the names of the .webm files in the session's raw/ folder
    report,     \* report[s]: the session's report/report.json: "none", "partial", "full"
    jobs,       \* jobs[j]: an analysis job (a thread of the pool, or the blocked handler)
    lastResp,   \* the last answer of a report endpoint
    env,        \* SpecJob: the process: is librosa importable, is OPENROUTER_API_KEY set
    model,      \* SpecJob: audio_analysis.model, the module-level Whisper model: loaded or None
    run,        \* SpecJob: the locals of one run of the pipeline and the files it writes
    calc,       \* SpecCalc: one call of a metric function: its name, its arguments, its result
    relay       \* SpecRelay: the ConnectionManager, the WebSocket handlers, the messages delivered

lifeVars == <<scenarios, kind, status, raw, report, jobs, lastResp>>
jobVars == <<env, model, run>>
vars == <<lifeVars, jobVars, calc, relay>>

----------------------------------------------------------------------------
\* Analysis jobs of the life-cycle model.

Analyzers == {"audio", "transcript", "video"}

IdleJob == [sid |-> 0, origin |-> "none", pc |-> "idle", outcome |-> "none",
            wrote |-> FALSE, invoked |-> {}]

Active(j) == jobs[j].pc # "idle"

InFlight(s) == \E j \in Slots : Active(j) /\ jobs[j].sid = s

\* /api/analyze_video is an async handler that calls run_analysis_pipeline
\* directly: the event loop serves no other request until the run returns.
LoopFree == \A j \in Slots : Active(j) => jobs[j].origin # "sync"

HasFreeSlot == \E j \in Slots : ~Active(j)
FreeSlot == CHOOSE j \in Slots : ~Active(j) /\ \A i \in Slots : i < j => Active(i)

NewJob(s, origin) == [sid |-> s, origin |-> origin, pc |-> "merge", outcome |-> "none",
                      wrote |-> FALSE, invoked |-> {}]

\* The pipeline with the report generated right after the transcript analysis.
NextPcSkipVideo(pc) ==
    CASE pc = "merge" -> "meta"
      [] pc = "meta" -> "audio"
      [] pc = "audio" -> "transcript"
      [] pc = "transcript" -> "report"
      [] pc = "video" -> "report"
      [] pc = "report" -> "status"
      [] OTHER -> "idle"

\* The pipeline with the Semantic Analyzer called before the Speech Analyzer.
NextPcTranscriptFirst(pc) ==
    CASE pc = "merge" -> "meta"
      [] pc = "meta" -> "transcript"
      [] pc = "transcript" -> "audio"
      [] pc = "audio" -> "video"
      [] pc = "video" -> "report"
      [] pc = "report" -> "status"
      [] OTHER -> "idle"

\* The order of the statements of run_analysis_pipeline and of
\* run_scenario_analysis / ScenarioAnalysisPipeline.run.
NextPc(pc) ==
    CASE pc = "merge" -> "meta"
      [] pc = "meta" -> "audio"
      [] pc = "audio" -> "transcript"
      [] pc = "transcript" -> "video"
      [] pc = "video" -> "report"
      [] pc = "report" -> "status"
      [] OTHER -> "idle"

Advance(job) == [job EXCEPT !.pc = NextPc(job.pc)]

\* The run returns or its except clause swallows the exception: the thread ends.
Ended(job, outcome) == [job EXCEPT !.pc = "idle", !.outcome = outcome]

----------------------------------------------------------------------------
\* One run in detail (SpecJob): values.

\* Bound: the number of sampled frames of a video.
MaxFrames == 1

\* No metric function is being called.
NoCall == [fn |-> "none", done |-> FALSE]

\* Python dicts are records; d.get(k, default); a local not yet bound.
EmptyDict == [k \in {} |-> 0]
Get(d, k, default) == IF k \in DOMAIN d THEN d[k] ELSE default
Unset == [unset |-> TRUE]
IsSet(d) == "unset" \notin DOMAIN d

\* No WebSocket was ever opened.
NoRelay == [active_connections |-> EmptyDict]

\* Numbers.  A time is a whole number of tenths of a second; a score, a
\* percentage or a rate is a whole number of hundredths, which is what
\* round(x, 2) keeps of it.
Min(a, b) == IF b < a THEN b ELSE a
Max(a, b) == IF b > a THEN b ELSE a

RECURSIVE SumSeq(_)
SumSeq(q) == IF Len(q) = 0 THEN 0 ELSE q[1] + SumSeq(Tail(q))

\* The whole number nearest to n/d (d > 0), a tie going to the even one.
RoundHalfEven(n, d) ==
    LET q == n \div d
        r == n % d
    IN  IF 2 * r < d THEN q
        ELSE IF 2 * r > d THEN q + 1
        ELSE IF q % 2 = 0 THEN q ELSE q + 1

\* round(n/d, 2), in hundredths.
Round2(n, d) == RoundHalfEven(100 * n, d)

\* The integer part of the square root of n, by bisection of lo..hi.
RECURSIVE SqrtBetween(_, _, _)
SqrtBetween(n, lo, hi) ==
    IF lo >= hi THEN lo
    ELSE LET mid == (lo + hi + 1) \div 2
         IN  IF mid * mid <= n THEN SqrtBetween(n, mid, hi)
             ELSE SqrtBetween(n, lo, mid - 1)
Isqrt(n) == SqrtBetween(n, 0, Min(n, 46340))

\* n * sum(x^2) - sum(x)^2: np.std(xs) is its square root over n = len(xs),
\* and np.std(xs) / np.mean(xs) its square root over sum(xs).
Spread(xs) ==
    LET n == Len(xs)
        S == SumSeq(xs)
    IN  n * SumSeq([i \in 1..n |-> xs[i] * xs[i]]) - S * S

\* np.std(xs) in hundredths (cut, not rounded), xs not empty.
StdHundredths(xs) == Isqrt(10000 * Spread(xs)) \div Len(xs)

\* np.std(xs) / np.mean(xs) * 100 in hundredths (the root cut to three
\* decimals), sum(xs) > 0.
VariationHundredths(xs) == (10 * Isqrt(1000000 * Spread(xs))) \div SumSeq(xs)

\* str.lower() on the tokens the model uses; str.split() gives the tokens.
LowerTable == [Um |-> "um", I |-> "i", Hopeless |-> "hopeless"]
Lower(w) == IF w \in DOMAIN LowerTable THEN LowerTable[w] ELSE w
LowerSplit(text) == [i \in 1..Len(text) |-> Lower(text[i])]

\* What model.transcribe gives back, or that it raises.  no_speech_prob is in
\* hundredths.  The last outcome has segments that overlap: they are ordered
\* by start and each ends after it starts.
AsrOutcomes == {
    [raises |-> TRUE, text |-> <<>>, segments |-> <<>>],
    [raises |-> FALSE, text |-> <<>>, segments |-> <<>>],
    [raises |-> FALSE, text |-> <<"Um", "I", "feel", "hopeless">>,
     segments |-> << [start |-> 0, end |-> 20, no_speech_prob |-> 0],
                     [start |-> 50, end |-> 60, no_speech_prob |-> 0] >>],
    [raises |-> FALSE, text |-> <<"uh", "so", "well">>,
     segments |-> << [start |-> 0, end |-> 30, no_speech_prob |-> 100],
                     [start |-> 10, end |-> 20, no_speech_prob |-> 0] >>] }

\* The waveform as extract_acoustic_features reads it: the pitch of the frames
\* that have one (Hz) and the RMS energy per frame; or librosa raises.
AcousticOutcomes == {
    [raises |-> TRUE, pitch_values |-> <<>>, rms |-> <<>>],
    [raises |-> FALSE, pitch_values |-> <<100, 110, 100, 110, 100, 110, 100, 110, 100, 110>>,
     rms |-> <<2, 3, 3>>] }

\* calculate_pause_metrics with gap >= 0.5 and gap >= 2.0.
calculate_pause_metrics_inclusive(segments) ==
    LET gaps == [i \in 1..(Len(segments) - 1) |-> segments[i + 1].start - segments[i].end]
        pauses == SelectSeq(gaps, LAMBDA gap : gap >= 5)
    IN  [pause_frequency |-> Len(pauses),
         average_pause_duration |->
             IF Len(pauses) > 0 THEN Round2(SumSeq(pauses), 10 * Len(pauses)) ELSE 0,
         long_pauses |-> Len(SelectSeq(pauses, LAMBDA gap : gap >= 20))]

\* calculate_pause_metrics(segments)
calculate_pause_metrics(segments) ==
    LET gaps == [i \in 1..(Len(segments) - 1) |-> segments[i + 1].start - segments[i].end]
        pauses == SelectSeq(gaps, LAMBDA gap : gap > 5)
    IN  [pause_frequency |-> Len(pauses),
         average_pause_duration |->
             IF Len(pauses) > 0 THEN Round2(SumSeq(pauses), 10 * Len(pauses)) ELSE 0,
         long_pauses |-> Len(SelectSeq(pauses, LAMBDA gap : gap > 20))]

\* calculate_speech_rate(segments, word_count): words per minute.
calculate_speech_rate(segments, word_count) ==
    LET speaking_time == SumSeq([i \in 1..Len(segments) |-> segments[i].end - segments[i].start])
    IN  IF Len(segments) = 0 \/ word_count = 0 THEN 0
        ELSE IF speaking_time = 0 THEN 0
        ELSE Round2(word_count * 600, speaking_time)

\* The pause-rate penalty without min(30, ...).
UncappedPauseRatePenalty(pause_frequency) == pause_frequency * 2

\* min(30, pause_frequency * 2) of calculate_fluency_score.
CapPauseRatePenalty(pause_frequency) == Min(30, pause_frequency * 2)

\* calculate_fluency_score dividing by max(1, word_count) instead of returning
\* 0.0 for no word.
calculate_fluency_score_unguarded(filler_count, word_count, long_pauses, pause_frequency) ==
    LET pause_penalty == long_pauses * 5
        pause_rate_penalty == CapPauseRatePenalty(pause_frequency)
        words == Max(1, word_count)
        fluency == (100 - pause_penalty - pause_rate_penalty) * words - 100 * filler_count
    IN  Round2(Max(0, Min(100 * words, fluency)), words)

\* calculate_fluency_score(filler_count, word_count, long_pauses, pause_frequency)
calculate_fluency_score(filler_count, word_count, long_pauses, pause_frequency) ==
    IF word_count = 0 THEN 0
    ELSE LET pause_penalty == long_pauses * 5
             pause_rate_penalty == CapPauseRatePenalty(pause_frequency)
             \* fluency * word_count
             fluency == (100 - pause_penalty - pause_rate_penalty) * word_count
                        - 100 * filler_count
         IN  Round2(Max(0, Min(100 * word_count, fluency)), word_count)

\* A float that may be NaN (0.0 / 0.0 of numpy floats), and Python's
\* min(a, x) and max(a, x), which keep a unless x compares below (above) a.
NaN == [nan |-> TRUE, v |-> 0]
Float(v) == [nan |-> FALSE, v |-> v]
PyMin(a, x) == IF ~x.nan /\ x.v < a THEN x ELSE Float(a)
PyMax(a, x) == IF ~x.nan /\ x.v > a THEN x ELSE Float(a)

\* volume_stability of extract_acoustic_features, from the RMS energies.
volume_stability(rms) ==
    LET unclamped ==
               IF Len(rms) = 0 THEN Float(0)
               ELSE IF SumSeq(rms) = 0 THEN NaN
               ELSE Float(10000 - VariationHundredths(rms))
    IN  PyMax(0, PyMin(10000, unclamped)).v

\* calculate_stress_score(pitch_values, rms_values)
calculate_stress_score(pitch_values, rms_values) ==
    IF Len(pitch_values) = 0 \/ Len(rms_values) = 0 THEN 5000
    ELSE LET pitch_score == Min(10000, 2 * StdHundredths(pitch_values))
             energy_score == IF SumSeq(rms_values) > 0
                             THEN Min(10000, VariationHundredths(rms_values))
                             ELSE 0
         IN  RoundHalfEven(6 * pitch_score + 4 * energy_score, 10)

\* The loop of detect_vocal_tremor over pitch_diffs[i], i = 1 .. len - 1.
RECURSIVE direction_changes(_, _)
direction_changes(pitch_diffs, i) ==
    IF i > Len(pitch_diffs) THEN 0
    ELSE (IF (pitch_diffs[i] > 0) # (pitch_diffs[i - 1] > 0) THEN 1 ELSE 0)
         + direction_changes(pitch_diffs, i + 1)

detect_vocal_tremor_eleven(pitch_values) ==
    IF Len(pitch_values) <= 10 THEN FALSE
    ELSE LET pitch_diffs == [i \in 1..(Len(pitch_values) - 1) |->
                                pitch_values[i + 1] - pitch_values[i]]
         IN  10 * direction_changes(pitch_diffs, 2) > 6 * Len(pitch_diffs)

\* detect_vocal_tremor(pitch_values)
detect_vocal_tremor(pitch_values) ==
    IF Len(pitch_values) < 10 THEN FALSE
    ELSE LET pitch_diffs == [i \in 1..(Len(pitch_values) - 1) |->
                                pitch_values[i + 1] - pitch_values[i]]
         IN  10 * direction_changes(pitch_diffs, 2) > 6 * Len(pitch_diffs)

\* extract_acoustic_features(audio_path), past librosa.load and piptrack.
extract_acoustic_features(pitch_values, rms) ==
    [pitch_variability |-> IF Len(pitch_values) > 0 THEN StdHundredths(pitch_values) ELSE 0,
     volume_stability |-> volume_stability(rms),
     voice_stress_indicator |-> calculate_stress_score(pitch_values, rms),
     vocal_tremor_detected |-> detect_vocal_tremor(pitch_values)]

\* A fallback that reports a silent voice.
get_basic_acoustic_features_silent ==
    [pitch_variability |-> 0, volume_stability |-> 0,
     voice_stress_indicator |-> 0, vocal_tremor_detected |-> FALSE]

get_basic_acoustic_features ==
    [pitch_variability |-> 0, volume_stability |-> 7500,
     voice_stress_indicator |-> 5000, vocal_tremor_detected |-> FALSE]

filler_words == {"um", "uh", "ah", "like", "you know", "sort of", "kind of"}

AudioError == [error |-> "Audio file not found"]

\* The metrics analyze_audio computes from the transcription.
speech_metrics(full_text, segments) ==
    LET words == LowerSplit(full_text)
        filler_count == Len(SelectSeq(words, LAMBDA w : w \in filler_words))
        pause_data == calculate_pause_metrics(segments)
    IN  [transcript |-> full_text,
         word_count |-> Len(words),
         segments |-> segments,
         filler_count |-> filler_count,
         filler_word_frequency |->
             IF Len(words) > 0 THEN Round2(filler_count * 100, Len(words)) ELSE 0,
         pause_frequency |-> pause_data.pause_frequency,
         average_pause_duration |-> pause_data.average_pause_duration,
         long_pauses |-> pause_data.long_pauses,
         speech_rate_wpm |-> calculate_speech_rate(segments, Len(words)),
         speech_fluency_score |->
             calculate_fluency_score(filler_count, Len(words), pause_data.long_pauses,
                                     pause_data.pause_frequency)]

\* analyze_audio past the existence check: load_model(), model.transcribe, the
\* speech metrics, the acoustic features (librosa: whether "import librosa"
\* succeeds).  No call is made under a try that catches what it raises.
transcribe_and_measure(asr, acoustic, librosa) ==
    IF asr.raises
    THEN [raised |-> "asr", result |-> Unset, loads |-> 1, asr_calls |-> 1, acoustic_calls |-> 0]
    ELSE IF librosa /\ acoustic.raises
    THEN [raised |-> "acoustic", result |-> Unset, loads |-> 1, asr_calls |-> 1,
          acoustic_calls |-> 1]
    ELSE
        LET m == speech_metrics(asr.text, asr.segments)
            acoustic_features == IF librosa
                                 THEN extract_acoustic_features(acoustic.pitch_values, acoustic.rms)
                                 ELSE get_basic_acoustic_features
        IN  [raised |-> "none",
             result |-> [transcript |-> m.transcript,
                         word_count |-> m.word_count,
                         segments |-> m.segments,
                         filler_count |-> m.filler_count,
                         filler_word_frequency |-> m.filler_word_frequency,
                         pause_frequency |-> m.pause_frequency,
                         average_pause_duration |-> m.average_pause_duration,
                         long_pauses |-> m.long_pauses,
                         speech_rate_wpm |-> m.speech_rate_wpm,
                         pitch_variability |-> acoustic_features.pitch_variability,
                         volume_stability |-> acoustic_features.volume_stability,
                         voice_stress_indicator |-> acoustic_features.voice_stress_indicator,
                         vocal_tremor_detected |-> acoustic_features.vocal_tremor_detected,
                         speech_fluency_score |-> m.speech_fluency_score],
             loads |-> 1, asr_calls |-> 1,
             acoustic_calls |-> IF librosa THEN 1 ELSE 0]

\* analyze_audio with load_model() called before the existence check.
analyze_audio_load_first(present, asr, acoustic, librosa) ==
    IF ~present
    THEN [raised |-> "none", result |-> AudioError, loads |-> 1, asr_calls |-> 0,
          acoustic_calls |-> 0]
    ELSE transcribe_and_measure(asr, acoustic, librosa)

\* analyze_audio(audio_path).  present: os.path.exists(audio_path); asr: the
\* outcome of model.transcribe; acoustic: of extract_acoustic_features.
\* loads counts the calls of load_model().
analyze_audio(present, asr, acoustic, librosa) ==
    IF ~present
    THEN [raised |-> "none", result |-> AudioError, loads |-> 0, asr_calls |-> 0,
          acoustic_calls |-> 0]
    ELSE transcribe_and_measure(asr, acoustic, librosa)

----------------------------------------------------------------------------
\* The Semantic Analyzer.

fear_keywords == {"afraid", "scared", "anxious", "worry", "fear", "nervous", "terrified"}
stress_keywords == {"stress", "overwhelmed", "pressure", "tense", "exhausted", "burnout"}
confidence_keywords == {"confident", "capable", "strong", "able", "succeed", "achieve"}
calm_keywords == {"calm", "peaceful", "relaxed", "comfortable", "ease", "serene"}
crisis_keywords == {"suicide", "kill myself", "end it", "hopeless", "worthless", "give up"}

FirstFive(q) == SubSeq(q, 1, IF Len(q) < 5 THEN Len(q) ELSE 5)
Contains(q, w) == \E i \in 1..Len(q) : q[i] = w

get_fallback_analysis(transcript) ==
    LET words == LowerSplit(transcript)
        fear_words == SelectSeq(words, LAMBDA w : w \in fear_keywords)
        stress_words == SelectSeq(words, LAMBDA w : w \in stress_keywords)
        confidence_words == SelectSeq(words, LAMBDA w : w \in confidence_keywords)
        calm_words == SelectSeq(words, LAMBDA w : w \in calm_keywords)
        crisis_words == SelectSeq(words, LAMBDA w : w \in crisis_keywords)
        positive_count == Len(confidence_words) + Len(calm_words)
        negative_count == Len(fear_words) + Len(stress_words)
        overall_sentiment == IF positive_count > negative_count THEN "positive"
                             ELSE IF negative_count > positive_count THEN "negative"
                             ELSE "neutral"
    IN  [sentiment_trend |-> [overall |-> overall_sentiment, trajectory |-> "stable",
                              confidence |-> 60],
         emotional_language |-> [fear_words |-> FirstFive(fear_words),
                                 stress_words |-> FirstFive(stress_words),
                                 confidence_words |-> FirstFive(confidence_words),
                                 calm_words |-> FirstFive(calm_words),
                                 total_emotional_words |->
                                     Len(fear_words) + Len(stress_words)
                                     + Len(confidence_words) + Len(calm_words)],
         cognitive_distortions |-> <<>>,
         crisis_indicators |-> [self_harm_references |-> Len(crisis_words) > 0,
                                hopelessness_language |->
                                    Contains(words, "hopeless") \/ Contains(words, "worthless"),
                                crisis_keywords_found |-> crisis_words,
                                risk_level |-> IF Len(crisis_words) > 0 THEN "high" ELSE "none"],
         observational_summary |-> <<"words", Len(words), "sentiment", overall_sentiment>>,
         strength_indicators |-> IF Len(words) > 50
                                 THEN <<"Engaged in session", "Completed full session">>
                                 ELSE <<>>]

\* The JSON values an LLM answer can parse to.  json: the parsed content;
\* isdict: whether it is a JSON object (a list, a string, null are not).
ContractAnswer ==
    [sentiment_trend |-> [overall |-> "negative", trajectory |-> "declining", confidence |-> 80],
     emotional_language |-> [fear_words |-> <<"worry">>, stress_words |-> <<>>,
                             confidence_words |-> <<>>, calm_words |-> <<>>,
                             total_emotional_words |-> 1],
     cognitive_distortions |-> <<>>,
     crisis_indicators |-> [self_harm_references |-> FALSE, hopelessness_language |-> TRUE,
                            crisis_keywords_found |-> <<"hopeless">>, risk_level |-> "moderate"],
     observational_summary |-> <<"llm summary">>,
     strength_indicators |-> <<"Engaged">>]

PartialAnswer == [sentiment_trend |-> [overall |-> "negative"]]

\* The outcomes of requests.post(..., timeout=30) and of reading its answer.
LlmFailures == {"network_error", "timeout", "http_error", "not_json", "no_choices"}
LlmOutcomes ==
    {[kind |-> k, isdict |-> FALSE, json |-> EmptyDict] : k \in LlmFailures}
    \cup {[kind |-> "json", isdict |-> TRUE, json |-> ContractAnswer],
          [kind |-> "json", isdict |-> TRUE, json |-> PartialAnswer],
          [kind |-> "json", isdict |-> TRUE, json |-> EmptyDict],
          [kind |-> "json", isdict |-> FALSE, json |-> EmptyDict]}

\* analyze_with_llm with the request sent a second time after it failed.
analyze_with_llm_retry(transcript, api_key, llm) ==
    IF ~api_key
    THEN [isdict |-> TRUE, analysis |-> get_fallback_analysis(transcript),
          llm_calls |-> 0, fallbacks |-> 1]
    ELSE IF llm.kind \in LlmFailures
    THEN [isdict |-> TRUE, analysis |-> get_fallback_analysis(transcript),
          llm_calls |-> 2, fallbacks |-> 1]
    ELSE [isdict |-> llm.isdict, analysis |-> llm.json, llm_calls |-> 1, fallbacks |-> 0]

\* analyze_with_llm(transcript): api_key: OPENROUTER_API_KEY is set; llm: the outcome
\* of the request.  Every exception of the try block leads to the fallback; what
\* json.loads returns is returned as it is.
analyze_with_llm(transcript, api_key, llm) ==
    IF ~api_key
    THEN [isdict |-> TRUE, analysis |-> get_fallback_analysis(transcript),
          llm_calls |-> 0, fallbacks |-> 1]
    ELSE IF llm.kind \in LlmFailures
    THEN [isdict |-> TRUE, analysis |-> get_fallback_analysis(transcript),
          llm_calls |-> 1, fallbacks |-> 1]
    ELSE [isdict |-> llm.isdict, analysis |-> llm.json, llm_calls |-> 1, fallbacks |-> 0]

\* calculate_content_density(segments, total_duration)
calculate_content_density(segments, total_duration) ==
    IF total_duration = 0 THEN 0
    ELSE LET speech_time ==
                 SumSeq([i \in 1..Len(segments) |-> segments[i].end - segments[i].start])
         IN  Round2(speech_time * 100, total_duration)

\* calculate_transcript_confidence(segments)
calculate_transcript_confidence(segments) ==
    IF Len(segments) = 0 THEN 0
    ELSE LET confidence_scores ==
                 [i \in 1..Len(segments) |-> 100 - Get(segments[i], "no_speech_prob", 50)]
         IN  Round2(SumSeq(confidence_scores), Len(confidence_scores))

\* analyze_transcript(transcript, segments, word_count, filler_count); .get on a
\* value that is no dict raises AttributeError.
analyze_transcript(transcript, segments, word_count, filler_count, api_key, llm) ==
    LET a == analyze_with_llm(transcript, api_key, llm)
        llm_analysis == a.analysis
        total_duration == IF Len(segments) > 0 THEN segments[Len(segments)].end ELSE 0
    IN  IF ~a.isdict
        THEN [raised |-> "llm_shape", result |-> Unset,
              llm_calls |-> a.llm_calls, fallbacks |-> a.fallbacks]
        ELSE [raised |-> "none",
              result |-> [transcript_confidence_level |->
                              calculate_transcript_confidence(segments),
                          speech_content_density |->
                              calculate_content_density(segments, total_duration),
                          filler_word_frequency |-> filler_count,
                          sentiment_polarity_trend |-> Get(llm_analysis, "sentiment_trend", EmptyDict),
                          emotional_language_usage |-> Get(llm_analysis, "emotional_language", EmptyDict),
                          cognitive_distortion_indicators |-> Get(llm_analysis, "cognitive_distortions", <<>>),
                          crisis_keyword_presence |-> Get(llm_analysis, "crisis_indicators", EmptyDict),
                          observational_summary |-> Get(llm_analysis, "observational_summary", <<>>),
                          detected_strengths |-> Get(llm_analysis, "strength_indicators", <<>>)],
              llm_calls |-> a.llm_calls, fallbacks |-> a.fallbacks]

----------------------------------------------------------------------------
\* The Facial Analyzer.

Emotions == {"happy", "sad"}
\* What DeepFace.analyze does on a sampled frame: raises, returns an empty
\* result, or returns a dominant emotion.
FrameOutcomes == {"raise", "noface"} \cup Emotions
FrameSeqs == UNION {[1..n -> FrameOutcomes] : n \in 0..MaxFrames}

\* Every 30th frame is sampled (frame_idx % 30 == 0).
SampleStride == 30

\* A video file as cv2 presents it: opened, its fps (0 when the container
\* does not tell; else SampleStride frames a second here, one sample a
\* second), and the classifier's outcome per sampled frame.
VideoInputs ==
    {[opened |-> FALSE, fps |-> SampleStride, frames |-> <<>>],
     [opened |-> TRUE, fps |-> 0, frames |-> <<"happy">>]}
    \cup {[opened |-> TRUE, fps |-> SampleStride, frames |-> f] : f \in FrameSeqs}

VideoError == [error |-> "Could not open video"]

CountOf(q, e) == Cardinality({i \in 1..Len(q) : q[i] = e})

\* A dict that is iterated (emotion_counts): the sequence of its
\* [key, count] items in insertion order.
RECURSIVE FirstSeen(_)
FirstSeen(q) ==
    IF Len(q) = 0 THEN <<>>
    ELSE LET front == FirstSeen(SubSeq(q, 1, Len(q) - 1))
             last == q[Len(q)]
         IN  IF \E i \in 1..Len(front) : front[i] = last THEN front ELSE Append(front, last)
CountItems(q) == LET keys == FirstSeen(q)
                 IN  [i \in 1..Len(keys) |-> [key |-> keys[i], count |-> CountOf(q, keys[i])]]
CountGet(items, k) ==
    SumSeq([i \in 1..Len(items) |-> IF items[i].key = k THEN items[i].count ELSE 0])

\* max(d.items(), key=lambda x: x[1])[0]: the first key with the largest count.
MaxKey(items) ==
    LET best == CHOOSE i \in 1..Len(items) :
                    /\ \A k \in 1..Len(items) : items[k].count <= items[i].count
                    /\ \A k \in 1..(i - 1) : items[k].count < items[i].count
    IN  items[best].key

\* The emotions counted as stress expressions.
StressEmotions == {"angry", "fear", "sad"}

\* assess_head_movement(emotion_changes, variability)
assess_head_movement(emotion_changes, variability) ==
    IF variability > 5000 THEN [pattern |-> "high_movement", severity |-> "moderate"]
    ELSE IF variability > 2500 THEN [pattern |-> "moderate_movement", severity |-> "low"]
    ELSE [pattern |-> "low_movement", severity |-> "low"]

\* The variability without min(100, ...).
UncappedVariability(emotion_changes, analyzed_frames) == 100 * emotion_changes

\* min(100, variability) of calculate_video_metrics, as a fraction over
\* analyzed_frames - 1.
CapVariability(emotion_changes, analyzed_frames) ==
    Min(100 * (analyzed_frames - 1), 100 * emotion_changes)

\* min(100, expressiveness) of calculate_video_metrics, in two-hundredths.
CapExpressiveness(unique_emotions, emotional_variability) ==
    Min(20000, 3000 * unique_emotions + emotional_variability)

\* calculate_video_metrics(emotions_timeline, emotion_counts, emotion_changes,
\* stress_expressions, analyzed_frames, duration); duration in seconds.
calculate_video_metrics(emotion_counts, emotion_changes, stress_expressions, analyzed_frames, duration) ==
    LET total_analyzed == SumSeq([i \in 1..Len(emotion_counts) |-> emotion_counts[i].count])
        emotional_variability ==
            IF analyzed_frames > 1
            THEN Round2(CapVariability(emotion_changes, analyzed_frames), analyzed_frames - 1)
            ELSE 0
        stress_count == CountGet(emotion_counts, "angry") + CountGet(emotion_counts, "fear")
                        + CountGet(emotion_counts, "sad")
    IN  [dominant_emotion |-> IF Len(emotion_counts) > 0 THEN MaxKey(emotion_counts)
                              ELSE "neutral",
         emotion_distribution |->
             [i \in 1..Len(emotion_counts) |->
                 [key |-> emotion_counts[i].key,
                  percentage |-> IF total_analyzed > 0
                                 THEN Round2(emotion_counts[i].count * 100, total_analyzed)
                                 ELSE 0]],
         emotional_variability |-> emotional_variability,
         tension_index |-> IF total_analyzed > 0
                           THEN Round2(stress_count * 100, total_analyzed) ELSE 0,
         eye_contact_consistency |->
             Round2(analyzed_frames * 85, Max(1, analyzed_frames)),
         head_movement_patterns |-> assess_head_movement(emotion_changes, emotional_variability),
         expressiveness_score |->
             RoundHalfEven(CapExpressiveness(Len(emotion_counts), emotional_variability), 2),
         stress_frequency |-> IF duration > 0
                              THEN Round2(stress_expressions * 60, duration) ELSE 0]

\* analyze_video(video_path): timestamp = frame_idx / fps is outside the try;
\* the classifier is called under try/except and an empty result is skipped.
analyze_video(v) ==
    IF ~v.opened
    THEN [raised |-> "none", result |-> VideoError, classifier_calls |-> 0]
    ELSE IF Len(v.frames) > 0 /\ v.fps = 0
    THEN [raised |-> "fps", result |-> Unset, classifier_calls |-> 0]
    ELSE
        LET analyzed == SelectSeq([i \in 1..Len(v.frames) |-> i],
                                  LAMBDA i : v.frames[i] \in Emotions)
            emotions_timeline ==
                [k \in 1..Len(analyzed) |->
                    [time |-> (SampleStride * (analyzed[k] - 1)) \div v.fps,
                     emotion |-> v.frames[analyzed[k]]]]
            labels == [k \in 1..Len(analyzed) |-> v.frames[analyzed[k]]]
            seen == {v.frames[i] : i \in 1..Len(v.frames)} \cap Emotions
            emotion_changes ==
                Cardinality({k \in 2..Len(labels) : labels[k - 1] # labels[k]})
            stress_expressions ==
                Cardinality({k \in 1..Len(labels) : labels[k] \in StressEmotions})
            actual_duration == IF Len(emotions_timeline) > 0
                               THEN emotions_timeline[Len(emotions_timeline)].time ELSE 0
            metrics == calculate_video_metrics(CountItems(labels), emotion_changes,
                                               stress_expressions, Len(analyzed),
                                               actual_duration)
        IN  [raised |-> "none",
             result |-> [emotions |-> emotions_timeline,
                         emotion_summary |-> [e \in seen |-> CountOf(v.frames, e)],
                         dominant_emotion |-> metrics.dominant_emotion,
                         dominant_emotion_distribution |-> metrics.emotion_distribution,
                         facial_emotional_variability |-> metrics.emotional_variability,
                         facial_tension_index |-> metrics.tension_index,
                         eye_contact_consistency |-> metrics.eye_contact_consistency,
                         head_movement_patterns |-> metrics.head_movement_patterns,
                         facial_expressiveness_score |-> metrics.expressiveness_score,
                         stress_expression_frequency |-> metrics.stress_frequency,
                         frames_analyzed |-> Len(analyzed),
                         video_duration_seconds |-> 100 * actual_duration],
             classifier_calls |-> Len(v.frames)]

----------------------------------------------------------------------------
\* The Report Aggregator.

determine_session_type(raw_files) ==
    IF Cardinality(raw_files) >= 2 THEN "therapist-led"
    ELSE IF Cardinality(raw_files) = 1 THEN "simulation"
    ELSE "unknown"

\* video_results is a dict in insertion order: a sequence of [pid, result].
aggregate_video_metrics(video_results) ==
    IF Len(video_results) = 0 THEN EmptyDict
    ELSE LET first_participant == video_results[1].result
         IN  [dominant_emotion_distribution |->
                  Get(first_participant, "dominant_emotion_distribution", <<>>),
              facial_emotional_variability |->
                  Get(first_participant, "facial_emotional_variability", 0),
              facial_tension_index |-> Get(first_participant, "facial_tension_index", 0),
              eye_contact_consistency |-> Get(first_participant, "eye_contact_consistency", 0),
              head_movement_patterns |->
                  Get(first_participant, "head_movement_patterns", EmptyDict),
              facial_expressiveness_score |->
                  Get(first_participant, "facial_expressiveness_score", 0),
              stress_expression_frequency |->
                  Get(first_participant, "stress_expression_frequency", 0)]

calculate_overall_confidence_unweighted(audio_results, transcript_results) ==
    Get(transcript_results, "transcript_confidence_level", 0)
    + Get(audio_results, "speech_fluency_score", 0)

\* calculate_overall_confidence(audio_results, transcript_results, video_metrics)
calculate_overall_confidence(audio_results, transcript_results) ==
    RoundHalfEven(Get(transcript_results, "transcript_confidence_level", 0)
                  + Get(audio_results, "speech_fluency_score", 0), 2)

generate_comprehensive_report(session_metadata, audio_results, transcript_results, video_results) ==
    LET aggregated_video == aggregate_video_metrics(video_results)
    IN  [session_metadata |-> [session_id |-> session_metadata.session_id,
                               session_type |-> session_metadata.session_type,
                               session_date |-> session_metadata.session_date,
                               session_duration |-> session_metadata.session_duration,
                               session_duration_seconds |->
                                   session_metadata.session_duration_seconds],
         video_analysis |->
             [dominant_emotion_distribution |->
                  Get(aggregated_video, "dominant_emotion_distribution", <<>>),
              facial_emotional_variability |->
                  Get(aggregated_video, "facial_emotional_variability", 0),
              facial_tension_index |-> Get(aggregated_video, "facial_tension_index", 0),
              eye_contact_consistency |-> Get(aggregated_video, "eye_contact_consistency", 0),
              head_movement_patterns |->
                  Get(aggregated_video, "head_movement_patterns", EmptyDict),
              facial_expressiveness_score |->
                  Get(aggregated_video, "facial_expressiveness_score", 0),
              stress_expression_frequency |->
                  Get(aggregated_video, "stress_expression_frequency", 0),
              participants |-> video_results],
         audio_analysis |-> [speech_rate_wpm |-> Get(audio_results, "speech_rate_wpm", 0),
                             pitch_variability |-> Get(audio_results, "pitch_variability", 0),
                             volume_stability |-> Get(audio_results, "volume_stability", 0),
                             pause_frequency |-> Get(audio_results, "pause_frequency", 0),
                             average_pause_duration |->
                                 Get(audio_results, "average_pause_duration", 0),
                             voice_stress_indicator |-> Get(audio_results, "voice_stress_indicator", 0),
                             vocal_tremor_detected |-> Get(audio_results, "vocal_tremor_detected", FALSE),
                             speech_fluency_score |-> Get(audio_results, "speech_fluency_score", 0),
                             transcript |-> Get(audio_results, "transcript", <<>>),
                             word_count |-> Get(audio_results, "word_count", 0),
                             filler_count |-> Get(audio_results, "filler_count", 0)],
         transcript_analysis |-> [transcript_confidence_level |->
                                      Get(transcript_results, "transcript_confidence_level", 0),
                                  speech_content_density |->
                                      Get(transcript_results, "speech_content_density", 0),
                                  filler_word_frequency |-> Get(transcript_results, "filler_word_frequency", 0),
                                  sentiment_polarity_trend |-> Get(transcript_results, "sentiment_polarity_trend", EmptyDict),
                                  emotional_language_usage |-> Get(transcript_results, "emotional_language_usage", EmptyDict),
                                  cognitive_distortion_indicators |-> Get(transcript_results, "cognitive_distortion_indicators", <<>>),
                                  crisis_keyword_presence |-> Get(transcript_results, "crisis_keyword_presence", EmptyDict)],
         summary |-> [observational_summary |-> Get(transcript_results, "observational_summary", <<>>),
                      detected_strengths |-> Get(transcript_results, "detected_strengths", <<>>)],
         confidence_score |-> calculate_overall_confidence(audio_results, transcript_results),
         generated_at |-> "time.time()"]

\* The end of the last step window.
Sentinel == 999999

\* The emotion entries of all participants, in the order of the dict.
RECURSIVE AllEmotions(_)
AllEmotions(video_data) ==
    IF Len(video_data) = 0 THEN <<>>
    ELSE Get(Head(video_data).result, "emotions", <<>>) \o AllEmotions(Tail(video_data))

extract_metrics_for_timerange_overall(report_dict, start_time, end_time) ==
    LET video_data == report_dict.video_analysis.participants
        filtered_emotions ==
            SelectSeq(AllEmotions(video_data),
                      LAMBDA entry : start_time <= entry.time /\ entry.time < end_time)
        emotion_counts ==
            CountItems([i \in 1..Len(filtered_emotions) |-> filtered_emotions[i].emotion])
        total == SumSeq([i \in 1..Len(emotion_counts) |-> emotion_counts[i].count])
    IN  [emotion_distribution |->
             IF total > 0
             THEN [i \in 1..Len(emotion_counts) |->
                      [key |-> emotion_counts[i].key,
                       percentage |-> Round2(emotion_counts[i].count * 100, Len(AllEmotions(video_data)))]]
             ELSE <<>>,
         dominant_emotion |-> IF Len(emotion_counts) > 0 THEN MaxKey(emotion_counts)
                              ELSE "neutral",
         sample_count |-> Len(filtered_emotions)]

\* extract_metrics_for_timerange(report, start_time, end_time)
extract_metrics_for_timerange(report_dict, start_time, end_time) ==
    LET video_data == report_dict.video_analysis.participants
        filtered_emotions ==
            SelectSeq(AllEmotions(video_data),
                      LAMBDA entry : start_time <= entry.time /\ entry.time < end_time)
        emotion_counts ==
            CountItems([i \in 1..Len(filtered_emotions) |-> filtered_emotions[i].emotion])
        total == SumSeq([i \in 1..Len(emotion_counts) |-> emotion_counts[i].count])
    IN  [emotion_distribution |->
             IF total > 0
             THEN [i \in 1..Len(emotion_counts) |->
                      [key |-> emotion_counts[i].key,
                       percentage |-> Round2(emotion_counts[i].count * 100, total)]]
             ELSE <<>>,
         dominant_emotion |-> IF Len(emotion_counts) > 0 THEN MaxKey(emotion_counts)
                              ELSE "neutral",
         sample_count |-> Len(filtered_emotions)]

generate_stepwise_metrics_closed(report_dict, steps) ==
    [i \in 1..Len(steps) |->
        LET step_start == Get(steps[i], "time", 0)
            step_end == IF i + 1 <= Len(steps) THEN Get(steps[i + 1], "time", Sentinel)
                        ELSE Sentinel
        IN  [step |-> steps[i],
             time_range |-> [start |-> step_start, end |-> step_end],
             metrics |-> extract_metrics_for_timerange(report_dict, step_start, step_end + 1)]]

\* generate_stepwise_metrics(report, steps); a step is a dict that may have
\* no "time".
generate_stepwise_metrics(report_dict, steps) ==
    [i \in 1..Len(steps) |->
        LET step_start == Get(steps[i], "time", 0)
            step_end == IF i + 1 <= Len(steps) THEN Get(steps[i + 1], "time", Sentinel)
                        ELSE Sentinel
        IN  [step |-> steps[i],
             time_range |-> [start |-> step_start, end |-> step_end],
             metrics |-> extract_metrics_for_timerange(report_dict, step_start, step_end)]]

----------------------------------------------------------------------------
LifeInit ==
    /\ scenarios = FALSE
    /\ kind = [s \in Sessions |-> "none"]
    /\ status = [s \in Sessions |-> "none"]
    /\ raw = [s \in Sessions |-> {}]
    /\ report = [s \in Sessions |-> "none"]
    /\ jobs = [j \in Slots |-> IdleJob]
    /\ lastResp = [sid |-> 0, code |-> 0, inflight |-> FALSE]

Init ==
    /\ LifeInit
    /\ relay = NoRelay
    /\ env = [librosa |-> FALSE, api_key |-> FALSE]
    /\ model = FALSE
    /\ run = [pc |-> "idle"]
    /\ calc = NoCall

\* POST /api/scenarios
create_scenario ==
    /\ LoopFree
    /\ ~scenarios
    /\ scenarios' = TRUE
    /\ UNCHANGED <<kind, status, raw, report, jobs, lastResp, jobVars, calc, relay>>

\* POST /create_session
create_session ==
    /\ LoopFree
    /\ \E s \in Sessions :
        /\ kind[s] = "none"
        /\ kind' = [kind EXCEPT ![s] = "regular"]
        /\ status' = [status EXCEPT ![s] = "created"]
    /\ UNCHANGED <<scenarios, raw, report, jobs, lastResp, jobVars, calc, relay>>

\* POST /api/scenario/start
start_scenario_session ==
    /\ LoopFree
    /\ scenarios
    /\ \E s \in Sessions :
        /\ kind[s] = "none"
        /\ kind' = [kind EXCEPT ![s] = "scenario"]
        /\ status' = [status EXCEPT ![s] = "recording"]
    /\ UNCHANGED <<scenarios, raw, report, jobs, lastResp, jobVars, calc, relay>>

\* POST /upload/{session_id}/{participant_id}
upload_chunk ==
    /\ LoopFree
    /\ \E s \in Sessions, p \in Participants :
        /\ kind[s] = "regular"
        /\ raw' = [raw EXCEPT ![s] = @ \cup {p}]
    /\ UNCHANGED <<scenarios, kind, status, report, jobs, lastResp, jobVars, calc, relay>>

\* POST /api/scenario/upload/{session_id}
upload_scenario_recording ==
    /\ LoopFree
    /\ \E s \in Sessions :
        /\ kind[s] = "scenario"
        /\ raw' = [raw EXCEPT ![s] = @ \cup {ScenarioUser}]
    /\ UNCHANGED <<scenarios, kind, status, report, jobs, lastResp, jobVars, calc, relay>>

\* POST /end_call/{session_id}
end_call ==
    /\ LoopFree
    /\ HasFreeSlot
    /\ \E s \in Sessions :
        /\ kind[s] = "regular"
        /\ status' = [status EXCEPT ![s] = "processing"]
        /\ jobs' = [jobs EXCEPT ![FreeSlot] = NewJob(s, "background")]
    /\ UNCHANGED <<scenarios, kind, raw, report, lastResp, jobVars, calc, relay>>

\* POST /api/scenario/end/{session_id}
end_scenario_session ==
    /\ LoopFree
    /\ HasFreeSlot
    /\ \E s \in Sessions :
        /\ kind[s] = "scenario"
        /\ status' = [status EXCEPT ![s] = "processing"]
        /\ jobs' = [jobs EXCEPT ![FreeSlot] = NewJob(s, "background")]
    /\ UNCHANGED <<scenarios, kind, raw, report, lastResp, jobVars, calc, relay>>

\* POST /api/analyze_video: the checks before the run; the run itself is the
\* job's steps below, made in the handler (origin "sync").
analyze_video_endpoint ==
    /\ LoopFree
    /\ HasFreeSlot
    /\ \E s \in Sessions :
        /\ kind[s] = "regular"
        /\ raw[s] # {}
        /\ jobs' = [jobs EXCEPT ![FreeSlot] = NewJob(s, "sync")]
    /\ UNCHANGED <<scenarios, kind, status, raw, report, lastResp, jobVars, calc, relay>>

\* The answer of GET /api/report/{id} and GET /api/scenario/report/{id}: the
\* report when the file exists (json.load of a partly written file raises: 500).
ReportResponse(s) ==
    IF report[s] = "full" THEN 200
    ELSE IF report[s] = "partial" THEN 500
    ELSE IF status[s] = "processing" THEN 202
    ELSE 404

\* GET /api/report/{session_id}
get_report_data ==
    /\ LoopFree
    /\ \E s \in Sessions :
        /\ kind[s] \in {"none", "regular"}
        /\ lastResp' = [sid |-> s, code |-> ReportResponse(s), inflight |-> InFlight(s)]
    /\ UNCHANGED <<scenarios, kind, status, raw, report, jobs, jobVars, calc, relay>>

\* GET /api/scenario/report/{session_id}
get_scenario_report ==
    /\ LoopFree
    /\ \E s \in Sessions :
        /\ kind[s] = "scenario"
        /\ lastResp' = [sid |-> s, code |-> ReportResponse(s), inflight |-> InFlight(s)]
    /\ UNCHANGED <<scenarios, kind, status, raw, report, jobs, jobVars, calc, relay>>

----------------------------------------------------------------------------
\* The steps of a job.  ok = FALSE is the step raising; the except clause of
\* the run prints the traceback and the run ends.

\* run_ffmpeg_merge: no raw file: (None, None) and the run returns.
FfmpegMerge(j) ==
    /\ Active(j) /\ jobs[j].pc = "merge"
    /\ kind[jobs[j].sid] = "regular"
    /\ \E ok \in BOOLEAN :
        jobs' = [jobs EXCEPT ![j] =
                    IF raw[jobs[j].sid] = {} THEN Ended(jobs[j], "no_input")
                    ELSE IF ok THEN Advance(jobs[j])
                    ELSE Ended(jobs[j], "exception")]
    /\ UNCHANGED <<scenarios, kind, status, raw, report, lastResp, jobVars, calc, relay>>

\* run_scenario_analysis up to the two ffmpeg runs: no user.webm: return.
ScenarioConvert(j) ==
    /\ Active(j) /\ jobs[j].pc = "merge"
    /\ kind[jobs[j].sid] = "scenario"
    /\ \E ok \in BOOLEAN :
        jobs' = [jobs EXCEPT ![j] =
                    IF ScenarioUser \notin raw[jobs[j].sid] THEN Ended(jobs[j], "no_input")
                    ELSE IF ok THEN Advance(jobs[j])
                    ELSE Ended(jobs[j], "exception")]
    /\ UNCHANGED <<scenarios, kind, status, raw, report, lastResp, jobVars, calc, relay>>

\* cv2 duration and extract_session_metadata.
SessionMetadata(j) ==
    /\ Active(j) /\ jobs[j].pc = "meta"
    /\ \E ok \in BOOLEAN :
        jobs' = [jobs EXCEPT ![j] =
                    IF ok THEN Advance(jobs[j]) ELSE Ended(jobs[j], "exception")]
    /\ UNCHANGED <<scenarios, kind, status, raw, report, lastResp, jobVars, calc, relay>>

\* analyze_audio, analyze_transcript, the analyze_video loop: none is called
\* under a try of its own, so what they let out ends the run.
AnalyzerStep(j) ==
    /\ Active(j) /\ jobs[j].pc \in Analyzers
    /\ \E ok \in BOOLEAN :
        LET called == [jobs[j] EXCEPT !.invoked = @ \cup {jobs[j].pc}]
        IN  jobs' = [jobs EXCEPT ![j] =
                        IF ok THEN Advance(called) ELSE Ended(called, "exception")]
    /\ UNCHANGED <<scenarios, kind, status, raw, report, lastResp, jobVars, calc, relay>>

\* generate_comprehensive_report, then open(report_path, "w") and json.dump:
\* the file is truncated and written piece by piece, so a raise leaves a part.
WriteReport(j) ==
    /\ Active(j) /\ jobs[j].pc = "report"
    /\ \E ok \in BOOLEAN :
        LET written == [jobs[j] EXCEPT !.wrote = TRUE]
        IN  /\ report' = [report EXCEPT ![jobs[j].sid] = IF ok THEN "full" ELSE "partial"]
            /\ jobs' = [jobs EXCEPT ![j] =
                        IF ok THEN Advance(written) ELSE Ended(written, "exception")]
    /\ UNCHANGED <<scenarios, kind, status, raw, lastResp, jobVars, calc, relay>>

\* metadata.json is read, "status" set to "completed", and written back.
UpdateStatus(j) ==
    /\ Active(j) /\ jobs[j].pc = "status"
    /\ \E ok \in BOOLEAN :
        /\ status' = [status EXCEPT ![jobs[j].sid] = IF ok THEN "completed" ELSE @]
        /\ jobs' = [jobs EXCEPT ![j] =
                        Ended(jobs[j], IF ok THEN "completed" ELSE "exception")]
    /\ UNCHANGED <<scenarios, kind, raw, report, lastResp, jobVars, calc, relay>>

JobStep ==
    \E j \in Slots :
        \/ FfmpegMerge(j)
        \/ ScenarioConvert(j)
        \/ SessionMetadata(j)
        \/ AnalyzerStep(j)
        \/ WriteReport(j)
        \/ UpdateStatus(j)

Next ==
    \/ create_scenario
    \/ create_session
    \/ start_scenario_session
    \/ upload_chunk
    \/ upload_scenario_recording
    \/ end_call
    \/ end_scenario_session
    \/ analyze_video_endpoint
    \/ get_report_data
    \/ get_scenario_report
    \/ JobStep

Spec == Init /\ [][Next]_vars

----------------------------------------------------------------------------
\* One run in detail (SpecJob): the run.

\* How a run is started: by /end_call (status already "processing"), by
\* /api/analyze_video (status untouched), by /api/scenario/end.
Starts == {"end_call", "analyze_video", "scenario"}

RawFileSets(start) ==
    IF start = "scenario" THEN {{}, {ScenarioUser}}
    ELSE IF start = "analyze_video" THEN SUBSET Participants \ {{}}
    ELSE SUBSET Participants

NoCalls == [load |-> 0, asr |-> 0, acoustic |-> 0, llm |-> 0, fallback |-> 0, classifier |-> 0]

StartRun(start, raw_files) ==
    [start |-> start, raw_files |-> raw_files, pc |-> "merge", outcome |-> "none",
     cause |-> "none",
     status |-> IF start = "analyze_video" THEN "created" ELSE "processing",
     report_file |-> "none",
     session_metadata |-> Unset,
     audio_present |-> TRUE, audio_results |-> Unset,
     delivered |-> FALSE, transcript_results |-> Unset,
     globbed |-> FALSE, video_todo |-> <<>>, video_results |-> <<>>,
     report |-> Unset,
     inputs |-> [audio |-> {}, transcript |-> {}, video |-> {}],
     failed |-> {},
     calls |-> NoCalls]

RunAdvance(r) == [r EXCEPT !.pc = NextPc(r.pc)]
RunEnded(r, outcome, cause) == [r EXCEPT !.pc = "idle", !.outcome = outcome, !.cause = cause]

Perms(S) == {q \in [1..Cardinality(S) -> S] : \A i, k \in 1..Cardinality(S) : i # k => q[i] # q[k]}

JobInit ==
    /\ LifeInit
    /\ relay = NoRelay
    /\ env \in [librosa : BOOLEAN, api_key : BOOLEAN]
    /\ model = FALSE
    /\ \E start \in Starts : \E rf \in RawFileSets(start) : run = StartRun(start, rf)
    /\ calc = NoCall

\* run_ffmpeg_merge, or the conversion of user.webm: no raw file: return.
JMerge ==
    /\ run.pc = "merge"
    /\ \E ok \in BOOLEAN :
        run' = IF run.raw_files = {} THEN RunEnded(run, "no_input", "none")
               ELSE IF ok THEN RunAdvance(run)
               ELSE RunEnded(run, "exception", "ffmpeg")
    /\ UNCHANGED <<env, model, lifeVars, calc, relay>>

\* extract_session_metadata; the scenario run overwrites session_type.
JMeta ==
    /\ run.pc = "meta"
    /\ run' = RunAdvance([run EXCEPT !.session_metadata =
                    [session_id |-> "session_id",
                     session_type |-> IF run.start = "scenario" THEN "scenario"
                                      ELSE determine_session_type(run.raw_files),
                     session_date |-> "created_at",
                     session_duration |-> "format_duration",
                     session_duration_seconds |-> "video_duration"]])
    /\ UNCHANGED <<env, model, lifeVars, calc, relay>>

\* audio_results = analyze_audio(merged_audio)
JAudio ==
    /\ run.pc = "audio"
    /\ \E present \in BOOLEAN, asr \in AsrOutcomes, acoustic \in AcousticOutcomes :
        LET r == analyze_audio(present, asr, acoustic, env.librosa)
            called == [run EXCEPT !.audio_present = present,
                                  !.inputs.audio = {"merged_audio"},
                                  !.failed = @ \cup (IF r.raised # "none" THEN {r.raised} ELSE {}),
                                  !.calls.load = @ + r.loads,
                                  !.calls.asr = @ + r.asr_calls,
                                  !.calls.acoustic = @ + r.acoustic_calls]
        IN  /\ model' = (model \/ r.loads > 0)
            /\ run' = IF r.raised # "none" THEN RunEnded(called, "exception", r.raised)
                      ELSE RunAdvance([called EXCEPT !.audio_results = r.result])
    /\ UNCHANGED <<env, lifeVars, calc, relay>>

\* transcript_results = analyze_transcript(audio_results.get("transcript", ""), ...)
JTranscript ==
    /\ run.pc = "transcript"
    /\ \E llm \in LlmOutcomes :
        LET r == analyze_transcript(Get(run.audio_results, "transcript", <<>>),
                                    Get(run.audio_results, "segments", <<>>),
                                    Get(run.audio_results, "word_count", 0),
                                    Get(run.audio_results, "filler_count", 0),
                                    env.api_key, llm)
            called == [run EXCEPT !.inputs.transcript = {"audio_results"},
                                  !.failed = @ \cup (IF r.llm_calls > 0 /\ llm.kind \in LlmFailures
                                                     THEN {"llm"} ELSE {}),
                                  !.delivered = (r.llm_calls > 0 /\ llm.kind = "json"
                                                 /\ llm.isdict /\ llm.json = ContractAnswer),
                                  !.calls.llm = @ + r.llm_calls,
                                  !.calls.fallback = @ + r.fallbacks]
        IN  run' = IF r.raised # "none" THEN RunEnded(called, "exception", r.raised)
                   ELSE RunAdvance([called EXCEPT !.transcript_results = r.result])
    /\ UNCHANGED <<env, model, lifeVars, calc, relay>>

\* raw_files = glob(raw/*.webm), in the order the file system lists them; the
\* scenario run analyzes the one converted video under the key "user".
JVideoGlob ==
    /\ run.pc = "video" /\ ~run.globbed
    /\ \E order \in Perms(run.raw_files) :
        run' = [run EXCEPT !.globbed = TRUE, !.video_todo = order]
    /\ UNCHANGED <<env, model, lifeVars, calc, relay>>

\* video_results[pid] = analyze_video(raw_file), one file of the loop.
JVideoAnalyze ==
    /\ run.pc = "video" /\ run.globbed /\ run.video_todo # <<>>
    /\ \E v \in VideoInputs :
        LET r == analyze_video(v)
            source == IF run.start = "scenario" THEN "merged_video" ELSE "raw_file"
            called == [run EXCEPT !.inputs.video = @ \cup {source},
                                  !.failed = @ \cup (IF r.classifier_calls > 0
                                                        /\ Contains(v.frames, "raise")
                                                     THEN {"classifier"} ELSE {}),
                                  !.calls.classifier = @ + r.classifier_calls]
            stored == [called EXCEPT !.video_results =
                                        Append(@, [pid |-> Head(run.video_todo), result |-> r.result]),
                                     !.video_todo = Tail(@)]
        IN  run' = IF r.raised # "none" THEN RunEnded(called, "exception", r.raised)
                   ELSE IF stored.video_todo = <<>> THEN RunAdvance(stored)
                   ELSE stored
    /\ UNCHANGED <<env, model, lifeVars, calc, relay>>

\* The "steps" of a scenario's metadata.json: whatever JSON the admin posted;
\* here lists of steps, with and without a "time" (seconds).
ScenarioSteps ==
    {<<>>,
     <<[title |-> "greet", time |-> 0], [title |-> "listen", time |-> 1]>>,
     <<[title |-> "greet"], [title |-> "listen"]>>}

\* JReport without the step-wise analysis of the scenario run.
JReportNoStepwise ==
    /\ run.pc = "report"
    /\ \E ok \in BOOLEAN, steps \in (IF run.start = "scenario" THEN ScenarioSteps ELSE {<<>>}) :
        LET made == [run EXCEPT !.report =
                        generate_comprehensive_report(run.session_metadata, run.audio_results,
                                                      run.transcript_results, run.video_results)]
        IN  run' = IF ok THEN RunAdvance([made EXCEPT !.report_file = "full"])
                   ELSE RunEnded([made EXCEPT !.report_file = "partial"], "exception", "io")
    /\ UNCHANGED <<env, model, lifeVars, calc, relay>>

\* report = generate_comprehensive_report(...); the scenario run adds
\* report["stepwise_analysis"]; json.dump(report, f)
JReport ==
    /\ run.pc = "report"
    /\ \E ok \in BOOLEAN, steps \in (IF run.start = "scenario" THEN ScenarioSteps ELSE {<<>>}) :
        LET base == generate_comprehensive_report(run.session_metadata, run.audio_results,
                                                  run.transcript_results, run.video_results)
            made == [run EXCEPT !.report =
                        IF run.start = "scenario"
                        THEN [k \in DOMAIN base \cup {"stepwise_analysis"} |->
                                 IF k = "stepwise_analysis"
                                 THEN generate_stepwise_metrics(base, steps)
                                 ELSE base[k]]
                        ELSE base]
        IN  run' = IF ok THEN RunAdvance([made EXCEPT !.report_file = "full"])
                   ELSE RunEnded([made EXCEPT !.report_file = "partial"], "exception", "io")
    /\ UNCHANGED <<env, model, lifeVars, calc, relay>>

\* meta["status"] = "completed"
JStatus ==
    /\ run.pc = "status"
    /\ \E ok \in BOOLEAN :
        run' = IF ok THEN RunEnded([run EXCEPT !.status = "completed"], "completed", "none")
               ELSE RunEnded(run, "exception", "io")
    /\ UNCHANGED <<env, model, lifeVars, calc, relay>>

JobNext ==
    \/ JMerge
    \/ JMeta
    \/ JAudio
    \/ JTranscript
    \/ JVideoGlob
    \/ JVideoAnalyze
    \/ JReport
    \/ JStatus

SpecJob == JobInit /\ [][JobNext]_vars

----------------------------------------------------------------------------
\* The metric functions one call at a time (SpecCalc): calc holds the name of
\* the function, its arguments and, once it has returned, its result.

\* Bounds: segments of a transcription; every count given to a metric
\* function; samples of an energy or emotion sequence; the largest energy;
\* pitch differences tried in every combination; the length of the rising,
\* falling and alternating pitch sequences; occurrences of one emotion; words
\* of a transcript; steps of a scenario.
MaxSegments == 3
MaxCount == 3
MaxSamples == 3
MaxEnergy == 2
MaxDiffs == 9
MaxPattern == 20
MaxEmotionCount == 1
MaxWords == 3
MaxSteps == 2

\* Pause counts: the small ones, and those around the 15 pauses at which the
\* pause-rate penalty reaches 30 and the 20 long pauses that cost 100.
ManyPauses == 0..MaxCount \cup {14, 15, 16, 19, 20, 21}

SeqsUpTo(S, n) == UNION {[1..k -> S] : k \in 0..n}

\* Segment lists built from the length of each segment and the gap before it
\* (tenths of a second; a negative gap is an overlap), kept when they satisfy
\* the Segment model: ordered by start, each end at or after its start.
SegmentLengths == {0, 10}
SegmentGaps == {-10, 0, 5, 6, 20, 21}
RECURSIVE SegmentsFrom(_, _, _)
SegmentsFrom(lengths, gaps, at) ==
    IF Len(lengths) = 0 THEN <<>>
    ELSE LET start == at + Head(gaps)
         IN  <<[start |-> start, end |-> start + Head(lengths), no_speech_prob |-> 0]>>
             \o SegmentsFrom(Tail(lengths), Tail(gaps), start + Head(lengths))
IsSegmentModel(segments) ==
    /\ \A i \in 1..Len(segments) : segments[i].end >= segments[i].start
    /\ \A i \in 1..(Len(segments) - 1) : segments[i].start <= segments[i + 1].start
SegmentLists ==
    {<<>>} \cup UNION {
        {segs \in {SegmentsFrom(l, <<0>> \o g, 0) :
                      l \in [1..n -> SegmentLengths], g \in [1..(n - 1) -> SegmentGaps]} :
            IsSegmentModel(segs)} : n \in 1..MaxSegments}

\* Transcripts as whisper returns them, in tokens.
SpokenTexts == {<<>>, <<"Um">>, <<"Um", "I">>}
Vocabulary == {"I", "give", "up", "Hopeless", "um"}
Transcripts == SeqsUpTo(Vocabulary, MaxWords)

\* RMS energies per frame; a pitch track of a few frames.
EnergySeqs == SeqsUpTo(0..MaxEnergy, MaxSamples)
ShortPitches == {<<>>, <<100, 200>>}

\* Pitch tracks: every combination of steps down, level and up, and the
\* rising, the falling and the alternating tracks of every length.
BasePitch == 100
RECURSIVE PitchFrom(_, _)
PitchFrom(at, diffs) ==
    IF Len(diffs) = 0 THEN <<at>> ELSE <<at>> \o PitchFrom(at + Head(diffs), Tail(diffs))
Rising(n) == [i \in 1..n |-> BasePitch + i]
Falling(n) == [i \in 1..n |-> BasePitch - i]
Alternating(n) == [i \in 1..n |-> BasePitch + (i % 2)]
PitchTracks ==
    {<<>>} \cup {PitchFrom(BasePitch, d) : d \in SeqsUpTo({-1, 0, 1}, MaxDiffs)}
    \cup UNION {{Rising(n), Falling(n), Alternating(n)} : n \in 1..MaxPattern}

\* The labels of the classifier, and emotion_counts dicts over them.
DeepFaceEmotions == <<"angry", "disgust", "fear", "happy", "sad", "surprise", "neutral">>
EmotionCounts ==
    {SelectSeq([i \in 1..Len(DeepFaceEmotions) |-> [key |-> DeepFaceEmotions[i], count |-> f[i]]],
               LAMBDA item : item.count > 0) :
        f \in [1..Len(DeepFaceEmotions) -> 0..MaxEmotionCount]}

\* Emotion timelines of one sample a second, some seconds without a sample,
\* and step lists with and without a "time".
StepEmotions == {"happy", "sad", "angry"}
Timelines ==
    {LET kept == SelectSeq([i \in 1..Len(q) |-> i], LAMBDA i : q[i] # "skip")
     IN  [k \in 1..Len(kept) |-> [time |-> kept[k] - 1, emotion |-> q[kept[k]]]] :
        q \in SeqsUpTo(StepEmotions \cup {"skip"}, MaxSamples)}
StepLists ==
    {[i \in 1..Len(t) |-> IF t[i] < 0 THEN [title |-> "step"]
                          ELSE [title |-> "step", time |-> t[i]]] :
        t \in SeqsUpTo(-1..MaxSamples, MaxSteps)}
ReportOf(timeline) ==
    [video_analysis |-> [participants |-> <<[pid |-> ScenarioUser,
                                             result |-> [emotions |-> timeline]]>>]]

Call(fn, args) == [fn |-> fn, done |-> FALSE, args |-> args, out |-> Unset]
Return(value) == [calc EXCEPT !.done = TRUE, !.out = value]

CalcInit ==
    /\ LifeInit
    /\ relay = NoRelay
    /\ env = [librosa |-> FALSE, api_key |-> FALSE]
    /\ model = FALSE
    /\ run = [pc |-> "idle"]
    /\ \/ \E segs \in SegmentLists : calc = Call("calculate_pause_metrics", [segments |-> segs])
       \/ \E t \in SpokenTexts, segs \in SegmentLists :
              calc = Call("speech_metrics", [full_text |-> t, segments |-> segs])
       \/ \E c \in [filler_count : 0..MaxCount, word_count : 0..MaxCount,
                    long_pauses : ManyPauses, pause_frequency : ManyPauses] :
              calc = Call("calculate_fluency_score", c)
       \/ \E p \in ShortPitches, e \in EnergySeqs :
              calc = Call("extract_acoustic_features", [pitch_values |-> p, rms |-> e])
       \/ \E p \in PitchTracks : calc = Call("detect_vocal_tremor", [pitch_values |-> p])
       \/ \E c \in EmotionCounts, ch \in 0..MaxCount, n \in 0..MaxCount :
              calc = Call("calculate_video_metrics",
                          [emotion_counts |-> c, emotion_changes |-> ch, analyzed_frames |-> n])
       \/ \E t \in Transcripts : calc = Call("get_fallback_analysis", [transcript |-> t])
       \/ \E tl \in Timelines, st \in StepLists :
              calc = Call("generate_stepwise_metrics", [timeline |-> tl, steps |-> st])

Pending(fn) == calc.fn = fn /\ ~calc.done

CalcPauses ==
    /\ Pending("calculate_pause_metrics")
    /\ calc' = Return(calculate_pause_metrics(calc.args.segments))
    /\ UNCHANGED <<lifeVars, jobVars, relay>>

CalcSpeech ==
    /\ Pending("speech_metrics")
    /\ calc' = Return(speech_metrics(calc.args.full_text, calc.args.segments))
    /\ UNCHANGED <<lifeVars, jobVars, relay>>

CalcFluency ==
    /\ Pending("calculate_fluency_score")
    /\ calc' = Return(calculate_fluency_score(calc.args.filler_count, calc.args.word_count,
                                              calc.args.long_pauses, calc.args.pause_frequency))
    /\ UNCHANGED <<lifeVars, jobVars, relay>>

CalcAcoustic ==
    /\ Pending("extract_acoustic_features")
    /\ calc' = Return(extract_acoustic_features(calc.args.pitch_values, calc.args.rms))
    /\ UNCHANGED <<lifeVars, jobVars, relay>>

CalcTremor ==
    /\ Pending("detect_vocal_tremor")
    /\ calc' = Return(detect_vocal_tremor(calc.args.pitch_values))
    /\ UNCHANGED <<lifeVars, jobVars, relay>>

CalcVideo ==
    /\ Pending("calculate_video_metrics")
    /\ calc' = Return(calculate_video_metrics(
                          calc.args.emotion_counts, calc.args.emotion_changes,
                          CountGet(calc.args.emotion_counts, "angry")
                          + CountGet(calc.args.emotion_counts, "fear")
                          + CountGet(calc.args.emotion_counts, "sad"),
                          calc.args.analyzed_frames, calc.args.analyzed_frames))
    /\ UNCHANGED <<lifeVars, jobVars, relay>>

CalcFallback ==
    /\ Pending("get_fallback_analysis")
    /\ calc' = Return(get_fallback_analysis(calc.args.transcript))
    /\ UNCHANGED <<lifeVars, jobVars, relay>>

CalcStepwise ==
    /\ Pending("generate_stepwise_metrics")
    /\ calc' = Return(generate_stepwise_metrics(ReportOf(calc.args.timeline), calc.args.steps))
    /\ UNCHANGED <<lifeVars, jobVars, relay>>

CalcNext ==
    \/ CalcPauses
    \/ CalcSpeech
    \/ CalcFluency
    \/ CalcAcoustic
    \/ CalcTremor
    \/ CalcVideo
    \/ CalcFallback
    \/ CalcStepwise

SpecCalc == CalcInit /\ [][CalcNext]_vars

----------------------------------------------------------------------------
\* The frame loop of analyze_video, one frame a step.  calc holds the locals
\* of the call.

\* The sampled frames a video has at most.
MaxSampled == 4

\* result[0]['dominant_emotion'] in the frame loop.
ClassifierLabels == {"happy", "sad", "angry"}

\* cap.get(cv2.CAP_PROP_FPS): 0 when the container does not tell.
FpsValues == {0, 15, 30}

\* The locals before the loop.  previous_emotion "None" is Python's None;
\* classifier_calls counts the calls of DeepFace.analyze; last tells what
\* the latest frame did.
VideoCall(opened, fps) ==
    [fn |-> "analyze_video", done |-> FALSE, raised |-> "none",
     opened |-> opened, fps |-> fps,
     emotions_timeline |-> <<>>, emotion_counts |-> <<>>,
     emotion_changes |-> 0, previous_emotion |-> "None", stress_expressions |-> 0,
     frame_idx |-> 0, analyzed_frames |-> 0,
     classifier_calls |-> 0, last |-> "none", out |-> Unset]

\* emotion_counts[k] = 1 on the items of the dict.
IncrementFresh(items, k) ==
    IF \E i \in 1..Len(items) : items[i].key = k
    THEN [i \in 1..Len(items) |->
             IF items[i].key = k THEN [key |-> k, count |-> 1] ELSE items[i]]
    ELSE Append(items, [key |-> k, count |-> 1])

\* emotion_counts[k] = emotion_counts.get(k, 0) + 1 on the items of the dict.
Increment(items, k) ==
    IF \E i \in 1..Len(items) : items[i].key = k
    THEN [i \in 1..Len(items) |->
             IF items[i].key = k THEN [key |-> k, count |-> items[i].count + 1]
             ELSE items[i]]
    ELSE Append(items, [key |-> k, count |-> 1])

VideoInit ==
    /\ LifeInit
    /\ relay = NoRelay
    /\ env = [librosa |-> FALSE, api_key |-> FALSE]
    /\ model = FALSE
    /\ run = [pc |-> "idle"]
    /\ \E opened \in BOOLEAN, fps \in FpsValues : calc = VideoCall(opened, fps)

InLoop == calc.fn = "analyze_video" /\ ~calc.done /\ calc.opened
Sampled == calc.frame_idx % SampleStride = 0
MoreFrames == calc.frame_idx < SampleStride * MaxSampled

\* if not cap.isOpened(): return {"error": "Could not open video"}
OpenFailed ==
    /\ calc.fn = "analyze_video" /\ ~calc.done /\ ~calc.opened
    /\ calc' = [calc EXCEPT !.done = TRUE, !.out = VideoError]
    /\ UNCHANGED <<lifeVars, jobVars, relay>>

\* A frame that is read and not sampled.
ReadUnsampled ==
    /\ InLoop /\ MoreFrames /\ ~Sampled
    /\ calc' = [calc EXCEPT !.frame_idx = @ + 1, !.last = "unsampled"]
    /\ UNCHANGED <<lifeVars, jobVars, relay>>

\* timestamp = frame_idx / fps with fps 0: ZeroDivisionError outside the try.
FpsFault ==
    /\ InLoop /\ MoreFrames /\ Sampled /\ calc.fps = 0
    /\ calc' = [calc EXCEPT !.done = TRUE, !.raised = "fps", !.last = "fault"]
    /\ UNCHANGED <<lifeVars, jobVars, relay>>

\* A sampled frame for which DeepFace.analyze returns a dominant emotion.
Classified ==
    /\ InLoop /\ MoreFrames /\ Sampled /\ calc.fps > 0
    /\ \E dominant_emotion \in ClassifierLabels :
        LET timestamp == calc.frame_idx \div calc.fps
        IN  calc' = [calc EXCEPT
                !.emotions_timeline =
                    Append(@, [time |-> timestamp, emotion |-> dominant_emotion]),
                !.emotion_counts = Increment(@, dominant_emotion),
                !.emotion_changes =
                    IF calc.previous_emotion # "None"
                       /\ calc.previous_emotion # dominant_emotion
                    THEN @ + 1 ELSE @,
                !.previous_emotion = dominant_emotion,
                !.stress_expressions =
                    IF dominant_emotion \in StressEmotions THEN @ + 1 ELSE @,
                !.analyzed_frames = @ + 1,
                !.classifier_calls = @ + 1,
                !.frame_idx = @ + 1,
                !.last = "classified"]
    /\ UNCHANGED <<lifeVars, jobVars, relay>>

\* An empty result that forgets the previous emotion.
ClassifierEmptyResets ==
    /\ InLoop /\ MoreFrames /\ Sampled /\ calc.fps > 0
    /\ calc' = [calc EXCEPT !.classifier_calls = @ + 1, !.frame_idx = @ + 1,
                            !.previous_emotion = "None", !.last = "empty"]
    /\ UNCHANGED <<lifeVars, jobVars, relay>>

\* A sampled frame for which DeepFace.analyze returns an empty result.
ClassifierEmpty ==
    /\ InLoop /\ MoreFrames /\ Sampled /\ calc.fps > 0
    /\ calc' = [calc EXCEPT !.classifier_calls = @ + 1, !.frame_idx = @ + 1,
                            !.last = "empty"]
    /\ UNCHANGED <<lifeVars, jobVars, relay>>

\* The frame loop without the try around the classifier.
ClassifierRaisesUncaught ==
    /\ InLoop /\ MoreFrames /\ Sampled /\ calc.fps > 0
    /\ calc' = [calc EXCEPT !.classifier_calls = @ + 1, !.done = TRUE,
                            !.raised = "classifier", !.last = "raised"]
    /\ UNCHANGED <<lifeVars, jobVars, relay>>

\* A sampled frame for which DeepFace.analyze raises: except Exception: pass.
ClassifierRaises ==
    /\ InLoop /\ MoreFrames /\ Sampled /\ calc.fps > 0
    /\ calc' = [calc EXCEPT !.classifier_calls = @ + 1, !.frame_idx = @ + 1,
                            !.last = "raised"]
    /\ UNCHANGED <<lifeVars, jobVars, relay>>

\* The end of the loop with the duration taken from the number of frames.
EndOfVideoByFrameCount ==
    /\ InLoop
    /\ LET actual_duration ==
               IF calc.fps > 0 THEN calc.frame_idx \div calc.fps ELSE 0
           metrics == calculate_video_metrics(calc.emotion_counts, calc.emotion_changes,
                                              calc.stress_expressions, calc.analyzed_frames,
                                              actual_duration)
       IN  calc' = [calc EXCEPT
               !.done = TRUE,
               !.last = "end",
               !.out = [emotions |-> calc.emotions_timeline,
                        emotion_summary |-> calc.emotion_counts,
                        dominant_emotion |-> metrics.dominant_emotion,
                        dominant_emotion_distribution |-> metrics.emotion_distribution,
                        facial_emotional_variability |-> metrics.emotional_variability,
                        facial_tension_index |-> metrics.tension_index,
                        eye_contact_consistency |-> metrics.eye_contact_consistency,
                        head_movement_patterns |-> metrics.head_movement_patterns,
                        facial_expressiveness_score |-> metrics.expressiveness_score,
                        stress_expression_frequency |-> metrics.stress_frequency,
                        frames_analyzed |-> calc.analyzed_frames,
                        total_frames |-> calc.frame_idx,
                        video_duration_seconds |-> 100 * actual_duration]]
    /\ UNCHANGED <<lifeVars, jobVars, relay>>
\* cap.read() fails: the loop ends, the metrics are computed and returned.
EndOfVideo ==
    /\ InLoop
    /\ LET actual_duration ==
               IF Len(calc.emotions_timeline) > 0
               THEN calc.emotions_timeline[Len(calc.emotions_timeline)].time ELSE 0
           metrics == calculate_video_metrics(calc.emotion_counts, calc.emotion_changes,
                                              calc.stress_expressions, calc.analyzed_frames,
                                              actual_duration)
       IN  calc' = [calc EXCEPT
               !.done = TRUE,
               !.last = "end",
               !.out = [emotions |-> calc.emotions_timeline,
                        emotion_summary |-> calc.emotion_counts,
                        dominant_emotion |-> metrics.dominant_emotion,
                        dominant_emotion_distribution |-> metrics.emotion_distribution,
                        facial_emotional_variability |-> metrics.emotional_variability,
                        facial_tension_index |-> metrics.tension_index,
                        eye_contact_consistency |-> metrics.eye_contact_consistency,
                        head_movement_patterns |-> metrics.head_movement_patterns,
                        facial_expressiveness_score |-> metrics.expressiveness_score,
                        stress_expression_frequency |-> metrics.stress_frequency,
                        frames_analyzed |-> calc.analyzed_frames,
                        total_frames |-> calc.frame_idx,
                        video_duration_seconds |-> 100 * actual_duration]]
    /\ UNCHANGED <<lifeVars, jobVars, relay>>

VideoNext ==
    \/ OpenFailed
    \/ ReadUnsampled
    \/ FpsFault
    \/ Classified
    \/ ClassifierEmpty
    \/ ClassifierRaises
    \/ EndOfVideo

SpecVideo == VideoInit /\ [][VideoNext]_vars

----------------------------------------------------------------------------
\* The WebSocket relay: ConnectionManager and websocket_endpoint.  Handlers
\* are coroutines of one event loop: a step runs from one await to the next.

\* The WebSockets that are ever opened, and the sessions of their URLs.
MaxConns == 3
Conns == 1..MaxConns
RelaySessions == {"s1", "s2"}

\* A WebSocket and its handler.  at: where the handler is ("none": not yet
\* opened; "accept": in await websocket.accept(); "receive": in await
\* websocket.receive_text(); "send": in an await connection.send_text() of
\* broadcast; "returned": the handler is over).  idx, to: the position of
\* the for loop of broadcast and the connection it sends to.  gone: the
\* client has closed the socket.  code: the close code the server sent.
NewSocket ==
    [at |-> "none", session_id |-> "none", idx |-> 0, to |-> 0, gone |-> FALSE, code |-> 0]

\* The message delivered last: its sender and its receiver.
NoDelivery == [from |-> 0, to |-> 0]

\* del d[k] and d[k] = v on a dict.
DictDel(d, k) == [x \in DOMAIN d \ {k} |-> d[x]]
DictPut(d, k, v) == [x \in DOMAIN d \cup {k} |-> IF x = k THEN v ELSE d[x]]

\* list.remove(x) of a list that holds x once.
ListRemove(q, x) == SelectSeq(q, LAMBDA y : y # x)

RelayInit ==
    /\ LifeInit
    /\ env = [librosa |-> FALSE, api_key |-> FALSE]
    /\ model = FALSE
    /\ run = [pc |-> "idle"]
    /\ calc = NoCall
    /\ relay = [active_connections |-> EmptyDict,
                ws |-> [c \in Conns |-> NewSocket],
                delivered |-> NoDelivery]

\* A client opens /ws/{session_id}: websocket_endpoint starts and connect
\* awaits websocket.accept().
WsOpen(c) ==
    /\ relay.ws[c].at = "none"
    /\ \E s \in RelaySessions :
        relay' = [relay EXCEPT !.ws[c] = [NewSocket EXCEPT !.at = "accept", !.session_id = s]]
    /\ UNCHANGED <<lifeVars, jobVars, calc>>

\* ConnectionManager.connect that turns away the fourth connection only.
connect_allows_third(c) ==
    /\ relay.ws[c].at = "accept"
    /\ LET s == relay.ws[c].session_id
           entered == IF s \in DOMAIN relay.active_connections
                      THEN relay.active_connections
                      ELSE DictPut(relay.active_connections, s, <<>>)
       IN  IF Len(entered[s]) > 2
           THEN relay' = [relay EXCEPT !.active_connections = entered,
                                       !.ws[c].at = "returned", !.ws[c].code = 4000]
           ELSE relay' = [relay EXCEPT
                             !.active_connections = DictPut(entered, s, Append(entered[s], c)),
                             !.ws[c].at = "receive"]
    /\ UNCHANGED <<lifeVars, jobVars, calc>>

\* ConnectionManager.connect past the accept: the entry is created, a full
\* session closes the socket with 4000 and the handler returns, else the
\* socket is appended and the handler awaits the first message.
connect(c) ==
    /\ relay.ws[c].at = "accept"
    /\ LET s == relay.ws[c].session_id
           entered == IF s \in DOMAIN relay.active_connections
                      THEN relay.active_connections
                      ELSE DictPut(relay.active_connections, s, <<>>)
       IN  IF Len(entered[s]) >= 2
           THEN relay' = [relay EXCEPT !.active_connections = entered,
                                       !.ws[c].at = "returned", !.ws[c].code = 4000]
           ELSE relay' = [relay EXCEPT
                             !.active_connections = DictPut(entered, s, Append(entered[s], c)),
                             !.ws[c].at = "receive"]
    /\ UNCHANGED <<lifeVars, jobVars, calc>>

\* The client of a registered socket closes it.
ClientCloses(c) ==
    /\ relay.ws[c].at \in {"receive", "send"}
    /\ ~relay.ws[c].gone
    /\ relay' = [relay EXCEPT !.ws[c].gone = TRUE]
    /\ UNCHANGED <<lifeVars, jobVars, calc>>

\* ConnectionManager.disconnect(websocket, session_id)
Disconnected(active_connections, c, s) ==
    IF s \in DOMAIN active_connections
    THEN LET left == ListRemove(active_connections[s], c)
         IN  IF Len(left) = 0 THEN DictDel(active_connections, s)
             ELSE DictPut(active_connections, s, left)
    ELSE active_connections

\* receive_text raises WebSocketDisconnect: manager.disconnect, the handler
\* returns.
disconnect(c) ==
    /\ relay.ws[c].at = "receive" /\ relay.ws[c].gone
    /\ relay' = [relay EXCEPT
            !.active_connections =
                Disconnected(relay.active_connections, c, relay.ws[c].session_id),
            !.ws[c].at = "returned"]
    /\ UNCHANGED <<lifeVars, jobVars, calc>>

\* The for loop of broadcast from position i on: the first connection that
\* is not the sender, 0 when the list has no more.
NextReceiver(connections, i, sender) ==
    IF \E j \in i..Len(connections) : connections[j] # sender
    THEN CHOOSE j \in i..Len(connections) :
             /\ connections[j] # sender
             /\ \A k \in i..(j - 1) : connections[k] = sender
    ELSE 0

\* The handler of c up to its next await: in broadcast, the send_text to
\* the next receiver; after the loop, receive_text.
Resume(c, i) ==
    LET s == relay.ws[c].session_id
        connections == Get(relay.active_connections, s, <<>>)
        j == NextReceiver(connections, i, c)
    IN  IF j = 0 THEN [relay EXCEPT !.ws[c].at = "receive", !.ws[c].idx = 0, !.ws[c].to = 0]
        ELSE [relay EXCEPT !.ws[c].at = "send", !.ws[c].idx = j, !.ws[c].to = connections[j]]

\* receive_text returns a message of the client: broadcast starts.
broadcast(c) ==
    /\ relay.ws[c].at = "receive" /\ ~relay.ws[c].gone
    /\ relay' = Resume(c, 1)
    /\ UNCHANGED <<lifeVars, jobVars, calc>>

\* await connection.send_text(message) ends: the message is with the
\* receiver's client and the loop goes on; or, the receiver's client being
\* gone, the send is lost or raises: WebSocketDisconnect is caught by the
\* handler of the sender, which disconnects itself; any other exception ends
\* the handler as it is.
send_text(c) ==
    /\ relay.ws[c].at = "send"
    /\ LET to == relay.ws[c].to
           resumed == Resume(c, relay.ws[c].idx + 1)
       IN  \/ /\ ~relay.ws[to].gone
              /\ relay' = [resumed EXCEPT !.delivered = [from |-> c, to |-> to]]
           \/ /\ relay.ws[to].gone
              /\ \/ relay' = resumed
                 \/ relay' = [relay EXCEPT
                        !.active_connections =
                            Disconnected(relay.active_connections, c, relay.ws[c].session_id),
                        !.ws[c].at = "returned"]
                 \/ relay' = [relay EXCEPT !.ws[c].at = "returned"]
    /\ UNCHANGED <<lifeVars, jobVars, calc>>

RelayNext ==
    \E c \in Conns :
        \/ WsOpen(c)
        \/ connect(c)
        \/ ClientCloses(c)
        \/ disconnect(c)
        \/ broadcast(c)
        \/ send_text(c)

SpecRelay == RelayInit /\ [][RelayNext]_vars


----------------------------------------------------------------------------
\* Properties of the session life cycle (Spec).

StatusValues == {"none", "created", "processing", "completed", "failed"}

\* C1: the status record of every session only moves along
\* created -> processing -> completed|failed: the first status stored is
\* "created", no other value is ever stored, and "completed" and "failed" are final.
StatusPath_C1 ==
    /\ [](\A s \in Sessions : status[s] \in StatusValues)
    /\ [][\A s \in Sessions :
            /\ status[s] = "none" => status'[s] \in {"none", "created"}
            /\ status[s] = "created" => status'[s] \in {"created", "processing"}
            /\ status[s] = "processing" => status'[s] \in {"processing", "completed", "failed"}
            /\ status[s] \in {"completed", "failed"} => status'[s] = status[s]]_vars

\* C2: when a job ends with an uncaught exception, the status stored for its
\* session is "failed".
ExceptionMarksFailed_C2 ==
    [][\A j \in Slots :
        (Active(j) /\ jobs'[j].pc = "idle" /\ jobs'[j].outcome = "exception")
            => status'[jobs[j].sid] = "failed"]_vars

\* C3: a report endpoint asked about a session with a job in flight answers
\* 202 (still processing).
InFlightAnswers202_C3 == lastResp.inflight => lastResp.code = 202

\* C4: a run that ended with an exception has written no report file: only a
\* run that ended "completed" has written one.
ReportAllOrNothing_C4 ==
    \A j \in Slots : (~Active(j) /\ jobs[j].outcome # "completed") => ~jobs[j].wrote

\* C9: a job that finds no raw recording ends without having invoked an
\* analyzer or written a report, and does not leave the session in "processing".
MissingInputFails_C9 ==
    [][\A j \in Slots :
        (Active(j) /\ jobs'[j].pc = "idle" /\ jobs'[j].outcome = "no_input")
            => /\ jobs'[j].invoked = {}
               /\ ~jobs'[j].wrote
               /\ status'[jobs[j].sid] # "processing"]_vars

----------------------------------------------------------------------------
\* Properties of a run (SpecJob).

\* What ends a run other than an analyzer's external call.
OtherCauses == {"ffmpeg", "io", "fps", "llm_shape"}

\* C5: in a run where an external analyzer call failed (the ASR, the acoustic
\* extraction, the facial classifier on a frame, the LLM request) and nothing
\* else went wrong, all analyzers returned and the report was generated.
ExternalFailureContained_C5 ==
    (run.pc = "idle" /\ run.failed # {} /\ run.cause \notin OtherCauses)
        => /\ IsSet(run.audio_results)
           /\ IsSet(run.transcript_results)
           /\ run.video_todo = <<>> /\ run.globbed
           /\ IsSet(run.report)

\* C6: the report is generated only when the Speech and Semantic analyzers
\* have returned and the Facial analyzer has returned for every raw file.
AggregatorAfterAnalyzers_C6 ==
    (run.pc = "report" \/ IsSet(run.report))
        => /\ IsSet(run.audio_results)
           /\ IsSet(run.transcript_results)
           /\ run.globbed /\ run.video_todo = <<>>
           /\ {run.video_results[i].pid : i \in 1..Len(run.video_results)} = run.raw_files

AggregatorReached_C6 ==
    /\ run.pc = "report" /\ run.start = "end_call"
    /\ Len(run.video_results) = 2
    /\ "classifier" \in run.failed

ConformedMedia == {"merged_video", "merged_audio"}

\* C7 as stated: every analyzer's inputs are conformed media only.
InputsOnlyMedia_C7 ==
    \A a \in Analyzers : run.inputs[a] \subseteq ConformedMedia

\* C7 amended: the Speech analyzer reads the conformed audio only and the Facial
\* analyzer video files only (the raw recordings, or the conformed video of a
\* scenario run); the Semantic analyzer reads the Speech analyzer's result, is
\* called after it and returns the filler count it was given.
SemanticDependsOnSpeech_C7 ==
    /\ run.inputs.audio \subseteq {"merged_audio"}
    /\ run.inputs.video \subseteq {"raw_file", "merged_video"}
    /\ run.inputs.transcript \subseteq {"audio_results"}
    /\ run.pc = "transcript" => IsSet(run.audio_results)
    /\ IsSet(run.transcript_results)
        => /\ IsSet(run.audio_results)
           /\ run.transcript_results.filler_word_frequency
                = Get(run.audio_results, "filler_count", 0)

SemanticUsedSpeech_C7 ==
    /\ IsSet(run.transcript_results)
    /\ run.transcript_results.filler_word_frequency = 1
    /\ run.inputs.video = {"raw_file"}

SchemaComplete(t) ==
    /\ DOMAIN t.sentiment_polarity_trend = {"overall", "trajectory", "confidence"}
    /\ DOMAIN t.emotional_language_usage =
        {"fear_words", "stress_words", "confidence_words", "calm_words", "total_emotional_words"}
    /\ DOMAIN t.crisis_keyword_presence =
        {"self_harm_references", "hopelessness_language", "crisis_keywords_found", "risk_level"}

\* C8: whatever the LLM call does, no exception leaves analyze_transcript, its
\* result is schema-complete, and the keyword fallback was used whenever the
\* LLM did not deliver the contracted shape.
SemanticAlwaysComplete_C8 ==
    /\ run.cause # "llm_shape"
    /\ IsSet(run.transcript_results)
        => /\ SchemaComplete(run.transcript_results)
           /\ ~run.delivered => run.calls.fallback = 1

\* C10: when the audio file is absent, analyze_audio returns the error result
\* and has neither called load_model nor the ASR engine.
AbsentAudio_C10 ==
    (run.inputs.audio # {} /\ ~run.audio_present)
        => /\ run.audio_results = AudioError
           /\ run.calls.load = 0
           /\ run.calls.asr = 0
           /\ run.cause \notin {"asr", "acoustic"}

AbsentAudioSeen_C10 ==
    /\ run.inputs.audio # {} /\ ~run.audio_present
    /\ run.audio_results = AudioError
    /\ IsSet(run.report)

----------------------------------------------------------------------------
\* Properties of the report (SpecJob).

\* A score between 0 and 100, in hundredths.
Score == 0..10000

ReportKeys ==
    {"session_metadata", "video_analysis", "audio_analysis", "transcript_analysis",
     "summary", "confidence_score", "generated_at"}
SessionKeys ==
    {"session_id", "session_type", "session_date", "session_duration",
     "session_duration_seconds"}
VideoKeys ==
    {"dominant_emotion_distribution", "facial_emotional_variability", "facial_tension_index",
     "eye_contact_consistency", "head_movement_patterns", "facial_expressiveness_score",
     "stress_expression_frequency", "participants"}
AudioKeys ==
    {"speech_rate_wpm", "pitch_variability", "volume_stability", "pause_frequency",
     "average_pause_duration", "voice_stress_indicator", "vocal_tremor_detected",
     "speech_fluency_score", "transcript", "word_count", "filler_count"}
TranscriptKeys ==
    {"transcript_confidence_level", "speech_content_density", "filler_word_frequency",
     "sentiment_polarity_trend", "emotional_language_usage",
     "cognitive_distortion_indicators", "crisis_keyword_presence"}
SummaryKeys == {"observational_summary", "detected_strengths"}

\* The audio section a report has when analyze_audio returned its error.
NeutralAudio ==
    [speech_rate_wpm |-> 0, pitch_variability |-> 0, volume_stability |-> 0,
     pause_frequency |-> 0, average_pause_duration |-> 0, voice_stress_indicator |-> 0,
     vocal_tremor_detected |-> FALSE, speech_fluency_score |-> 0, transcript |-> <<>>,
     word_count |-> 0, filler_count |-> 0]

\* C11: every report has the top-level keys (and stepwise_analysis in a
\* scenario run, only there) and every metric key of each section, also when
\* an analyzer returned its error result; the values an error result lacks are
\* the neutral defaults.
ReportSchemaComplete_C11 ==
    IsSet(run.report) =>
        /\ DOMAIN run.report =
               ReportKeys \cup (IF run.start = "scenario" THEN {"stepwise_analysis"} ELSE {})
        /\ DOMAIN run.report.session_metadata = SessionKeys
        /\ DOMAIN run.report.video_analysis = VideoKeys
        /\ DOMAIN run.report.audio_analysis = AudioKeys
        /\ DOMAIN run.report.transcript_analysis = TranscriptKeys
        /\ DOMAIN run.report.summary = SummaryKeys
        /\ run.audio_results = AudioError => run.report.audio_analysis = NeutralAudio
        /\ run.video_results[1].result = VideoError =>
               /\ run.report.video_analysis.facial_tension_index = 0
               /\ run.report.video_analysis.dominant_emotion_distribution = <<>>
               /\ run.report.video_analysis.head_movement_patterns = EmptyDict

\* A scenario report made from an audio error result and a video error result.
ErrorResultsReported_C11 ==
    /\ IsSet(run.report)
    /\ run.start = "scenario"
    /\ run.audio_results = AudioError
    /\ run.video_results[1].result = VideoError
    /\ run.report_file = "full"

\* The session-level video fields, and what each is when the participant's
\* result lacks it.
AggregateDefaults ==
    [dominant_emotion_distribution |-> <<>>, facial_emotional_variability |-> 0,
     facial_tension_index |-> 0, eye_contact_consistency |-> 0,
     facial_expressiveness_score |-> 0, stress_expression_frequency |-> 0]
ParticipantResult(pid) ==
    LET i == CHOOSE k \in 1..Len(run.video_results) : run.video_results[k].pid = pid
    IN  run.video_results[i].result

\* C12: with the two participants A and B, the report has both under
\* video_analysis.participants and every session-level video field is
\* participant A's value, in whatever order the raw files were listed.
FirstParticipantIsA_C12 ==
    (IsSet(run.report) /\ run.raw_files = Participants) =>
        /\ {run.report.video_analysis.participants[k].pid :
               k \in 1..Len(run.report.video_analysis.participants)} = Participants
        /\ \A f \in DOMAIN AggregateDefaults :
               run.report.video_analysis[f] = Get(ParticipantResult("A"), f, AggregateDefaults[f])
        /\ run.report.video_analysis.head_movement_patterns =
               Get(ParticipantResult("A"), "head_movement_patterns", EmptyDict)

\* C16: in every report every percentage and score is between 0 and 100 and
\* every duration is not negative, for the segment lists of the Segment model
\* (filler_word_frequency of the transcript analysis is a count of percent).
ReportScoresInRange_C16 ==
    IsSet(run.report) =>
        /\ run.report.transcript_analysis.speech_content_density \in Score
        /\ run.report.transcript_analysis.transcript_confidence_level \in Score
        /\ 100 * run.report.transcript_analysis.filler_word_frequency \in Score
        /\ run.report.audio_analysis.voice_stress_indicator \in Score
        /\ run.report.audio_analysis.volume_stability \in Score
        /\ run.report.audio_analysis.speech_fluency_score \in Score
        /\ run.report.audio_analysis.average_pause_duration >= 0
        /\ run.report.video_analysis.facial_emotional_variability \in Score
        /\ run.report.video_analysis.facial_tension_index \in Score
        /\ run.report.video_analysis.eye_contact_consistency \in Score
        /\ run.report.video_analysis.facial_expressiveness_score \in Score
        /\ run.report.confidence_score \in Score

----------------------------------------------------------------------------
\* Properties of the metric functions (SpecCalc).

Returned(fn) == calc.fn = fn /\ calc.done

\* The gaps between adjacent segments that are longer than t tenths of a second.
GapsOver(segments, t) ==
    {i \in 1..(Len(segments) - 1) : segments[i + 1].start - segments[i].end > t}

\* C13: pause_frequency is the number of gaps over 0.5 s and long_pauses the
\* number of gaps over 2.0 s, so long_pauses <= pause_frequency; a gap of 0.5 s
\* is no pause, a gap of 2.0 s is a pause that is not long; no pause gives the
\* average duration 0.
PauseCounts_C13 ==
    Returned("calculate_pause_metrics") =>
        LET segments == calc.args.segments
            only == segments[2].start - segments[1].end
        IN  /\ calc.out.pause_frequency = Cardinality(GapsOver(segments, 5))
            /\ calc.out.long_pauses = Cardinality(GapsOver(segments, 20))
            /\ calc.out.long_pauses <= calc.out.pause_frequency
            /\ calc.out.pause_frequency = 0 => calc.out.average_pause_duration = 0
            /\ calc.out.pause_frequency > 0 => calc.out.average_pause_duration > 50
            /\ (Len(segments) = 2 /\ only = 5) => calc.out.pause_frequency = 0
            /\ (Len(segments) = 2 /\ only = 20) =>
                   calc.out.pause_frequency = 1 /\ calc.out.long_pauses = 0

\* Three segments with a gap of 0.5 s and a gap of 2.0 s: one pause, not long.
BoundaryGaps_C13 ==
    /\ Returned("calculate_pause_metrics")
    /\ Len(calc.args.segments) = 3
    /\ calc.args.segments[2].start - calc.args.segments[1].end = 5
    /\ calc.args.segments[3].start - calc.args.segments[2].end = 20
    /\ calc.out = [pause_frequency |-> 1, average_pause_duration |-> 200, long_pauses |-> 0]

\* C14: with a word count of 0 the filler rate, the speech rate and the
\* fluency score are 0, whatever the segments and the pause counts are.
ZeroWords_C14 ==
    /\ (Returned("speech_metrics") /\ calc.out.word_count = 0) =>
           /\ calc.out.filler_word_frequency = 0
           /\ calc.out.speech_rate_wpm = 0
           /\ calc.out.speech_fluency_score = 0
    /\ (Returned("calculate_fluency_score") /\ calc.args.word_count = 0) => calc.out = 0

\* No word, three segments and two pauses, one of them long.
ZeroWordsWithPauses_C14 ==
    /\ Returned("speech_metrics")
    /\ calc.out.word_count = 0
    /\ Len(calc.args.segments) = 3
    /\ calc.out.pause_frequency = 2
    /\ calc.out.long_pauses = 1
    /\ calc.out.speech_fluency_score = 0

\* C15: the fluency score, the volume stability, the tension index, the
\* expressiveness score and the emotional variability are between 0 and 100
\* for all counts, all energy sequences (all-zero ones too) and all emotion
\* and change counts.
ScoresClamped_C15 ==
    /\ Returned("calculate_fluency_score") => calc.out \in Score
    /\ Returned("speech_metrics") => calc.out.speech_fluency_score \in Score
    /\ Returned("extract_acoustic_features") => calc.out.volume_stability \in Score
    /\ Returned("calculate_video_metrics") =>
           /\ calc.out.tension_index \in Score
           /\ calc.out.expressiveness_score \in Score
           /\ calc.out.emotional_variability \in Score

\* More emotion changes than pairs of analyzed frames, and all seven labels.
ClampsActive_C15 ==
    /\ Returned("calculate_video_metrics")
    /\ calc.args.analyzed_frames = 2
    /\ calc.args.emotion_changes = 3
    /\ Len(calc.args.emotion_counts) = 7
    /\ calc.out.emotional_variability = 10000
    /\ calc.out.expressiveness_score = 10000

\* The words of a crisis keyword, in order.
KeywordTokens(k) ==
    CASE k = "kill myself" -> <<"kill", "myself">>
      [] k = "end it" -> <<"end", "it">>
      [] k = "give up" -> <<"give", "up">>
      [] OTHER -> <<k>>

\* The words of q hold the words of phrase next to each other.
ContainsPhrase(q, phrase) ==
    \E i \in 0..(Len(q) - Len(phrase)) :
        \A j \in 1..Len(phrase) : q[i + j] = phrase[j]

ContainsCrisisKeyword(transcript) ==
    \E k \in crisis_keywords : ContainsPhrase(LowerSplit(transcript), KeywordTokens(k))

\* C17: the keyword fallback sets hopelessness_language for every transcript
\* containing "hopeless", and its risk_level is 'high' exactly when the
\* transcript contains a keyword of the crisis list and 'none' otherwise.
FallbackRiskExact_C17 ==
    Returned("get_fallback_analysis") =>
        LET crisis == calc.out.crisis_indicators
        IN  /\ ContainsPhrase(LowerSplit(calc.args.transcript), <<"hopeless">>)
                => crisis.hopelessness_language
            /\ crisis.risk_level \in {"high", "none"}
            /\ crisis.risk_level = "high" <=> ContainsCrisisKeyword(calc.args.transcript)

\* The places where the pitch goes up after it did not, or stops going up
\* after it did.
SignChanges(p) ==
    {i \in 2..(Len(p) - 1) : (p[i + 1] > p[i]) # (p[i] > p[i - 1])}

StrictlyMonotonic(p) ==
    \/ \A i \in 1..(Len(p) - 1) : p[i + 1] > p[i]
    \/ \A i \in 1..(Len(p) - 1) : p[i + 1] < p[i]

StrictlyAlternating(p) ==
    /\ \A i \in 1..(Len(p) - 1) : p[i + 1] # p[i]
    /\ \A i \in 2..(Len(p) - 1) : (p[i + 1] > p[i]) # (p[i] > p[i - 1])

OrderedSteps(steps) ==
    /\ \A i \in 1..Len(steps) : "time" \in DOMAIN steps[i]
    /\ \A i \in 1..(Len(steps) - 1) : steps[i].time < steps[i + 1].time

WindowEnd(steps, i) == IF i < Len(steps) THEN steps[i + 1].time ELSE Sentinel

\* The samples of the timeline that window i of the steps holds.
InWindow(timeline, steps, i) ==
    {k \in 1..Len(timeline) :
        steps[i].time <= timeline[k].time /\ timeline[k].time < WindowEnd(steps, i)}

\* C19: for step times t0 < t1 < ... window i is [t_i, t_{i+1}) and the last
\* window ends at the sentinel: every sample from t0 on is counted in exactly
\* one window, a sample on a boundary t_i in window i and not in window i-1,
\* and the sample counts add up to the number of those samples.
StepWindows_C19 ==
    Returned("generate_stepwise_metrics") /\ OrderedSteps(calc.args.steps) =>
        LET steps == calc.args.steps
            timeline == calc.args.timeline
            counts == [i \in 1..Len(steps) |-> calc.out[i].metrics.sample_count]
            late == {k \in 1..Len(timeline) :
                        Len(steps) > 0 /\ timeline[k].time >= steps[1].time}
        IN  /\ \A i \in 1..Len(steps) :
                   /\ calc.out[i].time_range =
                          [start |-> steps[i].time, end |-> WindowEnd(steps, i)]
                   /\ counts[i] = Cardinality(InWindow(timeline, steps, i))
            /\ \A k \in late :
                   Cardinality({i \in 1..Len(steps) : k \in InWindow(timeline, steps, i)}) = 1
            /\ \A k \in 1..Len(timeline) : \A i \in 2..Len(steps) :
                   timeline[k].time = steps[i].time =>
                       k \in InWindow(timeline, steps, i) /\ k \notin InWindow(timeline, steps, i - 1)
            /\ SumSeq(counts) = Cardinality(late)

\* Two windows, a sample on the boundary between them and one before it.
BoundarySample_C19 ==
    /\ Returned("generate_stepwise_metrics")
    /\ OrderedSteps(calc.args.steps)
    /\ Len(calc.args.steps) = 2
    /\ \E k \in 1..Len(calc.args.timeline) :
           calc.args.timeline[k].time = calc.args.steps[2].time
    /\ calc.out[1].metrics.sample_count > 0
    /\ calc.out[2].metrics.sample_count > 0

\* The shares of a window's emotion distribution, added up.
DistributionSum(metrics) ==
    SumSeq([i \in 1..Len(metrics.emotion_distribution) |->
               metrics.emotion_distribution[i].percentage])

EmptyWindowReportsZero(metrics) ==
    metrics.sample_count = 0 =>
        /\ metrics.emotion_distribution = <<>>
        /\ metrics.dominant_emotion = "neutral"

\* C20: the emotion distribution of every window with samples sums to 100%
\* and a window with none reports an empty distribution, 'neutral' and
\* sample_count 0.
DistributionSumsTo100_C20 ==
    Returned("generate_stepwise_metrics") =>
        \A i \in 1..Len(calc.out) :
            /\ calc.out[i].metrics.sample_count > 0 =>
                   DistributionSum(calc.out[i].metrics) = 10000
            /\ EmptyWindowReportsZero(calc.out[i].metrics)

\* C20, amended: the shares are rounded to two decimals one by one, so the
\* distribution of a window with samples sums to 100% up to half a hundredth
\* for each label in it; a window with none reports an empty distribution,
\* 'neutral' and sample_count 0.
DistributionSumsToRounding_C20 ==
    Returned("generate_stepwise_metrics") =>
        \A i \in 1..Len(calc.out) :
            LET metrics == calc.out[i].metrics
                off == DistributionSum(metrics) - 10000
            IN  /\ metrics.sample_count > 0 =>
                       /\ Len(metrics.emotion_distribution) > 0
                       /\ 2 * off <= Len(metrics.emotion_distribution)
                       /\ -2 * off <= Len(metrics.emotion_distribution)
                /\ EmptyWindowReportsZero(metrics)

\* A window with three labels of one sample each, next to an empty window.
ThirdsAndEmpty_C20 ==
    /\ Returned("generate_stepwise_metrics")
    /\ \E i, j \in 1..Len(calc.out) :
           /\ Len(calc.out[i].metrics.emotion_distribution) = 3
           /\ DistributionSum(calc.out[i].metrics) = 9999
           /\ calc.out[j].metrics.sample_count = 0

----------------------------------------------------------------------------
\* Properties of the report's confidence score (SpecJob).

\* C21: confidence_score equals 0.5 x transcript_confidence_level + 0.5 x
\* speech_fluency_score, to the two decimals the report keeps, and so lies
\* between 0 and 100 in every report; when the audio analyzer returned an
\* error result both inputs are 0 and the score is 0.
ConfidenceIsRoundedMean_C21 ==
    IsSet(run.report) =>
        LET transcript_conf == run.report.transcript_analysis.transcript_confidence_level
            fluency_score == run.report.audio_analysis.speech_fluency_score
            off == 2 * run.report.confidence_score - (transcript_conf + fluency_score)
        IN  /\ off \in {-1, 0, 1}
            /\ run.report.confidence_score \in Score
            /\ "error" \in DOMAIN run.audio_results =>
                   transcript_conf = 0 /\ fluency_score = 0 /\ run.report.confidence_score = 0

\* A report whose mean has a third decimal.
ConfidenceRounded_C21 ==
    /\ IsSet(run.report)
    /\ (run.report.transcript_analysis.transcript_confidence_level
        + run.report.audio_analysis.speech_fluency_score) % 2 = 1
    /\ run.report.confidence_score > 0

----------------------------------------------------------------------------
\* Properties of the frame loop of analyze_video (SpecVideo).

\* C22: a sampled frame on which the classifier raises or returns an empty
\* result never aborts analyze_video: the frame is skipped, the timeline, the
\* emotion counts, the change counter, the previous emotion, the stress
\* counter and the analyzed-frame counter stay as they are, and the loop goes
\* on with the next frame.
FailedFrameSkipped_C22 ==
    [][calc'.last \in {"raised", "empty"} /\ calc' # calc =>
          /\ ~calc'.done
          /\ calc'.raised = "none"
          /\ calc'.frame_idx = calc.frame_idx + 1
          /\ calc'.emotions_timeline = calc.emotions_timeline
          /\ calc'.emotion_counts = calc.emotion_counts
          /\ calc'.emotion_changes = calc.emotion_changes
          /\ calc'.previous_emotion = calc.previous_emotion
          /\ calc'.stress_expressions = calc.stress_expressions
          /\ calc'.analyzed_frames = calc.analyzed_frames]_vars

\* A video analyzed to its end whose second sampled frame failed between two
\* classified ones.
FailureBetweenSamples_C22 ==
    /\ calc.fn = "analyze_video" /\ calc.done /\ calc.raised = "none"
    /\ calc.fps = 30
    /\ calc.classifier_calls = 3
    /\ calc.analyzed_frames = 2
    /\ calc.out.emotions[1].time = 0
    /\ calc.out.emotions[2].time = 2

----------------------------------------------------------------------------
\* Properties of concurrent jobs (Spec).

\* C23: no mutable state is shared across analysis jobs and there is one job
\* for an ended session: two jobs that run at the same time never work on the
\* same session's files (merged media, report, metadata) and never both use
\* the lazily loaded module-level analyzer of analyze_audio.
NoSharedJobState_C23 ==
    \A i, j \in Slots :
        i # j /\ Active(i) /\ Active(j) =>
            /\ jobs[i].sid # jobs[j].sid
            /\ ~(jobs[i].pc = "audio" /\ jobs[j].pc = "audio")

----------------------------------------------------------------------------
\* Properties of the acoustic fallback (SpecJob).

AcousticFields ==
    {"pitch_variability", "volume_stability", "voice_stress_indicator", "vocal_tremor_detected"}

\* The result of an analyze_audio that returned metrics.
AudioSucceeded == IsSet(run.audio_results) /\ "error" \notin DOMAIN run.audio_results

\* C24: the audio metrics always hold the four acoustic fields: they are in
\* every result of a successful analyze_audio, and when the acoustic-feature
\* extractor is unavailable they are pitch variability 0, volume stability
\* 75, stress indicator 50, tremor false.
AcousticFieldsPresent_C24 ==
    AudioSucceeded =>
        /\ AcousticFields \subseteq DOMAIN run.audio_results
        /\ ~env.librosa =>
               /\ run.audio_results.pitch_variability = 0
               /\ run.audio_results.volume_stability = 7500
               /\ run.audio_results.voice_stress_indicator = 5000
               /\ run.audio_results.vocal_tremor_detected = FALSE

\* A transcribed recording measured without the extractor.
NeutralDefaultsUsed_C24 ==
    /\ AudioSucceeded
    /\ ~env.librosa
    /\ run.audio_results.word_count > 0
    /\ run.audio_results.volume_stability = 7500

\* C25: for word_count > 0 the fluency score is 100 - filler_count /
\* word_count x 100 - 5 x long_pauses - min(30, 2 x pause_frequency), clamped
\* to [0, 100], to the two decimals of the result; the pause-rate penalty is
\* at most 30, the long-pause penalty has no bound, so 20 long pauses or more
\* give 0.
FluencyFormula_C25 ==
    Returned("calculate_fluency_score") /\ calc.args.word_count > 0 =>
        LET a == calc.args
            rate_penalty == IF a.pause_frequency >= 15 THEN 30 ELSE 2 * a.pause_frequency
            \* the unclamped score, in hundredths, times word_count
            scaled == 100 * ((100 - 5 * a.long_pauses - rate_penalty) * a.word_count
                             - 100 * a.filler_count)
            clamped == IF scaled < 0 THEN 0
                       ELSE IF scaled > 10000 * a.word_count THEN 10000 * a.word_count
                       ELSE scaled
            off == 2 * (calc.out * a.word_count - clamped)
        IN  /\ off <= a.word_count /\ -off <= a.word_count
            /\ a.long_pauses >= 20 => calc.out = 0

\* A third of fillers and three long pauses, with the pause-rate penalty at
\* its cap: 100 - 33.33 - 15 - 30.
PenaltiesAtWork_C25 ==
    /\ Returned("calculate_fluency_score")
    /\ calc.args.word_count = 3 /\ calc.args.filler_count = 1
    /\ calc.args.long_pauses = 3 /\ calc.args.pause_frequency = 21
    /\ calc.out = 2167

\* analyze_video returned its metrics.
VideoAnalyzed ==
    calc.fn = "analyze_video" /\ calc.done /\ calc.raised = "none" /\ calc.opened

\* The places of a timeline where the emotion differs from the one before.
ChangesIn(timeline) ==
    {k \in 2..Len(timeline) : timeline[k].emotion # timeline[k - 1].emotion}

StressIn(timeline) ==
    {k \in 1..Len(timeline) : timeline[k].emotion \in {"angry", "fear", "sad"}}

\* C26: emotional variability is the number of changes of the dominant
\* emotion between consecutive analyzed samples over analyzed samples - 1,
\* x 100, capped at 100, to the two decimals of the result, and 0 with fewer
\* than 2 samples; a skipped frame between two analyzed samples does not
\* reset the comparison.
VariabilityFormula_C26 ==
    VideoAnalyzed =>
        LET n == Len(calc.out.emotions)
            changes == Cardinality(ChangesIn(calc.out.emotions))
            v == calc.out.facial_emotional_variability
            off == 2 * (v * (n - 1) - 10000 * changes)
        IN  /\ calc.out.frames_analyzed = n
            /\ v \in Score
            /\ n < 2 => v = 0
            /\ n >= 2 => off <= n - 1 /\ -off <= n - 1

\* Two samples of different emotions with a skipped frame between them.
ChangeAcrossSkippedFrame_C26 ==
    /\ VideoAnalyzed
    /\ calc.classifier_calls = 3
    /\ Len(calc.out.emotions) = 2
    /\ calc.out.emotions[1].emotion # calc.out.emotions[2].emotion
    /\ calc.out.facial_emotional_variability = 10000

\* C27: stress frequency is the count of stress emotions over the actual
\* duration in minutes, to the two decimals of the result; the actual
\* duration is the timestamp of the last frame that gave an emotion sample,
\* not the number of frames; with a duration of 0 the frequency is 0, and the
\* reported duration is never negative.
StressFrequency_C27 ==
    VideoAnalyzed =>
        LET n == Len(calc.out.emotions)
            duration == IF n > 0 THEN calc.out.emotions[n].time ELSE 0
            stress == Cardinality(StressIn(calc.out.emotions))
            f == calc.out.stress_expression_frequency
            off == 2 * (f * duration - 6000 * stress)
        IN  /\ calc.out.video_duration_seconds = 100 * duration
            /\ calc.out.video_duration_seconds >= 0
            /\ duration = 0 => f = 0
            /\ duration > 0 => off <= duration /\ -off <= duration

\* Four seconds of frames whose last emotion sample is at one second.
DurationOfLastSample_C27 ==
    /\ VideoAnalyzed
    /\ calc.fps = 30
    /\ calc.out.total_frames = 120
    /\ calc.out.video_duration_seconds = 100
    /\ calc.out.stress_expression_frequency = 12000

\* C29: after any sequence of frames the counters of analyze_video agree:
\* analyzed_frames is the length of the timeline and the sum of
\* emotion_counts, stress_expressions is count(angry) + count(fear) +
\* count(sad), emotion_changes is at most max(0, analyzed_frames - 1), and
\* the timestamps of the timeline go up strictly.
CountersConsistent_C29 ==
    calc.fn = "analyze_video" =>
        /\ calc.analyzed_frames = Len(calc.emotions_timeline)
        /\ calc.analyzed_frames =
               SumSeq([i \in 1..Len(calc.emotion_counts) |-> calc.emotion_counts[i].count])
        /\ calc.stress_expressions =
               CountGet(calc.emotion_counts, "angry") + CountGet(calc.emotion_counts, "fear")
               + CountGet(calc.emotion_counts, "sad")
        /\ calc.emotion_changes <= Max(0, calc.analyzed_frames - 1)
        /\ \A k \in 2..Len(calc.emotions_timeline) :
               calc.emotions_timeline[k - 1].time < calc.emotions_timeline[k].time

\* Classified, skipped and failed frames in one video, an emotion seen twice.
MixedFrames_C29 ==
    /\ calc.fn = "analyze_video"
    /\ calc.classifier_calls = 4
    /\ calc.analyzed_frames = 3
    /\ Len(calc.emotion_counts) = 2
    /\ calc.stress_expressions = 2
    /\ calc.emotion_changes = 2

----------------------------------------------------------------------------
\* Properties of the external calls of one job (SpecJob).

----------------------------------------------------------------------------
\* Properties of the WebSocket relay (SpecRelay).

Registered(r, c) ==
    \E s \in DOMAIN r.active_connections :
        \E i \in 1..Len(r.active_connections[s]) : r.active_connections[s][i] = c

\* What every state of the relay satisfies.
RelayState(r) ==
    /\ \A s \in DOMAIN r.active_connections : Len(r.active_connections[s]) \in {1, 2}
    /\ \A c \in Conns :
           r.ws[c].code = 4000 => r.ws[c].at = "returned" /\ ~Registered(r, c)
    /\ r.delivered # NoDelivery =>
           /\ r.delivered.to # r.delivered.from
           /\ r.ws[r.delivered.to].session_id = r.ws[r.delivered.from].session_id

\* C30: in the WebSocket relay, whatever the order of connects, disconnects
\* and messages, a session never has more than 2 registered connections: a
\* third connect is closed with code 4000 and not registered, a disconnect
\* removes that connection only and deletes the session's entry when it
\* becomes empty, and a relayed message goes only to the other connections of
\* the same session, never back to its sender.
RelayRegistry_C30 ==
    [][/\ RelayState(relay')
       /\ \A c \in Conns :
           LET s == relay.ws[c].session_id
               before == Get(relay.active_connections, s, <<>>)
           IN  /\ relay.ws[c].at = "accept" /\ relay'.ws[c].at # "accept" =>
                      IF Len(before) >= 2
                      THEN /\ relay'.ws[c].code = 4000
                           /\ relay'.active_connections = relay.active_connections
                      ELSE /\ relay'.ws[c].code = 0
                           /\ relay'.active_connections[s] = Append(before, c)
               /\ Registered(relay, c) /\ ~Registered(relay', c) =>
                      /\ \A o \in Conns \ {c} : Registered(relay', o) <=> Registered(relay, o)
                      /\ before = <<c>> => s \notin DOMAIN relay'.active_connections
      ]_vars

\* A full session turned a third socket away, a message was relayed, and the
\* last disconnect deleted the entry.
RelayUsed_C30 ==
    /\ "ws" \in DOMAIN relay
    /\ \E c \in Conns : relay.ws[c].code = 4000
    /\ relay.delivered # NoDelivery
    /\ DOMAIN relay.active_connections = {}

====
